---------------------------- MODULE Spec2Model ----------------------------
(***************************************************************************)
(* Embroidery digitization core of bordadosdosrlucasV2: the layer composer *)
(* digitizeDesign with its stitch generators, and the two binary encoders  *)
(* createDstFile (Tajima DST) and createExpFile (Melco EXP).               *)
(*                                                                         *)
(* Lengths are fixed-point integers, 1 unit = 0.001 mm.  A Stitch is the   *)
(* record of src/unnamed/part_001 (x, y, type, colorIndex, hexColor,       *)
(* isStructure).                                                           *)
(***************************************************************************)
EXTENDS Integers, Sequences, FiniteSets, TLC

VARIABLES stitches, format, dst, exp, taj, layers, config, dig

vars == <<stitches, format, dst, exp, taj, layers, config, dig>>

\* The digitizer's variables: its two arguments and its local state.
digVars == <<layers, config, dig>>

\* The digitizer is not running.
DigIdle == layers = <<>> /\ config = <<>> /\ dig = <<>>

(***************************************************************************)
(* Small helpers.                                                          *)
(***************************************************************************)
Abs(n) == IF n < 0 THEN -n ELSE n

Max(a, b) == IF a > b THEN a ELSE b

Min(a, b) == IF a < b THEN a ELSE b

Last(s) == s[Len(s)]

\* The extent scan's numbers: <<0, v>> is the integer v, <<1, 0>> is JavaScript's
\* Infinity and <<-1, 0>> is -Infinity (the start values of the scan).
PosInf == <<1, 0>>

NegInf == <<-1, 0>>

Fin(v) == <<0, v>>

\* a < b and a > b of JavaScript for an integer a and a b that may be infinite.
JsLt(a, b) == b[1] = 1 \/ (b[1] = 0 /\ a < b[2])

JsGt(a, b) == b[1] = -1 \/ (b[1] = 0 /\ a > b[2])

\* Math.max(0, v) for v = maxX (an integer or -Infinity) and
\* Math.abs(Math.min(0, v)) for v = minX (an integer or Infinity).
JsMax0(v) == IF v[1] = -1 THEN 0 ELSE Max(0, v[2])

JsAbsMin0(v) == IF v[1] = 1 THEN 0 ELSE Abs(Min(0, v[2]))

Stitch(px, py, t, structure) ==
    [x |-> px, y |-> py, type |-> t, colorIndex |-> 0, hexColor |-> "#000000",
     isStructure |-> structure]

(***************************************************************************)
(* Math.round(s.x * 10): millimetres to 0.1 mm units, halves rounded       *)
(* towards +Infinity.  One 0.1 mm unit is TenthMm model units.             *)
(***************************************************************************)
TenthMm == 100

RoundTenth(v) == (2 * v + TenthMm) \div (2 * TenthMm)

(***************************************************************************)
(* encodeTajimaStitch (src/services/dstExporter.ts).                       *)
(***************************************************************************)
\* b |= m for a one-bit mask m.
BitOr(b, m) == IF (b \div m) % 2 = 1 THEN b ELSE b + m

\* The ten tests on y, in source order: <<weight, byte index, mask>>; a
\* positive weight w stands for "if (y >= w) { b |= mask; y -= w }" and a
\* negative one for "if (y <= w) { b |= mask; y -= w }".
TajimaYSteps ==
    << <<1, 1, 1>>,    <<-1, 1, 2>>,   <<9, 1, 4>>,    <<-9, 1, 8>>,
       <<3, 2, 128>>,  <<-3, 2, 64>>,  <<27, 2, 32>>,  <<-27, 2, 16>>,
       <<81, 3, 4>>,   <<-81, 3, 8>> >>

TajimaXSteps ==
    << <<1, 1, 128>>,  <<-1, 1, 64>>,  <<9, 1, 32>>,   <<-9, 1, 16>>,
       <<3, 2, 8>>,    <<-3, 2, 4>>,   <<27, 2, 2>>,   <<-27, 2, 1>>,
       <<81, 3, 16>>,  <<-81, 3, 32>> >>

RECURSIVE TajimaApply(_, _, _, _)
TajimaApply(steps, k, v, b) ==
    IF k > Len(steps) THEN b
    ELSE LET w == steps[k][1]
             hit == IF w > 0 THEN v >= w ELSE v <= w
         IN  IF hit
             THEN TajimaApply(steps, k + 1, v - w,
                              [b EXCEPT ![steps[k][2]] = BitOr(@, steps[k][3])])
             ELSE TajimaApply(steps, k + 1, v, b)

\* The control bits of byte 2: bit 7 for jump, stop and end; bit 6 for stop and end.
TajimaControl(type) ==
    LET b7 == IF type \in {"jump", "stop", "end"} THEN BitOr(0, 128) ELSE 0
        b6 == IF type \in {"stop", "end"} THEN BitOr(b7, 64) ELSE b7
    IN  <<0, 0, b6>>

encodeTajimaStitch(dx, dy, type) ==
    TajimaApply(TajimaXSteps, 1, dx,
                TajimaApply(TajimaYSteps, 1, dy, TajimaControl(type)))


(***************************************************************************)
(* Number.prototype.toString and String.prototype.padStart, on strings     *)
(* kept as sequences of characters.                                        *)
(***************************************************************************)
Digit(d) == <<"0", "1", "2", "3", "4", "5", "6", "7", "8", "9">>[d + 1]

RECURSIVE NatToString(_)
NatToString(n) ==
    IF n < 10 THEN <<Digit(n)>> ELSE Append(NatToString(n \div 10), Digit(n % 10))

toString(n) == IF n < 0 THEN <<"-">> \o NatToString(-n) ELSE NatToString(n)

RECURSIVE padStart(_, _, _)
padStart(str, len, ch) ==
    IF Len(str) >= len THEN str ELSE padStart(<<ch>> \o str, len, ch)

(***************************************************************************)
(* createDstFile (src/services/dstExporter.ts).  dst.calls records, for    *)
(* each body record, the arguments encodeTajimaStitch was called with and  *)
(* the index of the source record it belongs to.                           *)
(***************************************************************************)
MAX_STEP == 121

HEADER_SIZE == 512

DstInit ==
    [pc |-> "loop", i |-> 1, currentX |-> 0, currentY |-> 0, dx |-> 0, dy |-> 0,
     stitchCount |-> 0, bodyParts |-> <<>>, calls |-> <<>>,
     minX |-> PosInf, maxX |-> NegInf, minY |-> PosInf, maxY |-> NegInf,
     header |-> <<>>, totalSize |-> 0]

\* Mutant of DstClamp: the step is not capped.
DstClamp_Uncapped(d) == d

\* dx > MAX_STEP ? MAX_STEP : (dx < -MAX_STEP ? -MAX_STEP : dx)
DstClamp(d) == IF d > MAX_STEP THEN MAX_STEP ELSE IF d < -MAX_STEP THEN -MAX_STEP ELSE d

\* The record kind of the final step of a source record.
DstFinalType(s) ==
    IF s.type = "color_change" THEN "stop" ELSE IF s.type = "jump" THEN "jump" ELSE "stitch"

\* for-loop head: "if (s.type === 'end') continue".
DstSkipEnd ==
    /\ format = "dst" /\ dst.pc = "loop" /\ dst.i <= Len(stitches)
    /\ stitches[dst.i].type = "end"
    /\ dst' = [dst EXCEPT !.i = @ + 1]
    /\ UNCHANGED <<stitches, format, exp, taj, digVars>>

\* Mutant of DstExtent: the scan runs over the deltas, not the targets.
DstExtent_Deltas(d, targetX, targetY) ==
    LET ddx == targetX - d.currentX
        ddy == targetY - d.currentY
    IN  [d EXCEPT !.minX = IF JsLt(ddx, @) THEN Fin(ddx) ELSE @,
                  !.maxX = IF JsGt(ddx, @) THEN Fin(ddx) ELSE @,
                  !.minY = IF JsLt(ddy, @) THEN Fin(ddy) ELSE @,
                  !.maxY = IF JsGt(ddy, @) THEN Fin(ddy) ELSE @]

\* "Bounds check based on absolute": the extent scan over the targets.
DstExtent(d, targetX, targetY) ==
    [d EXCEPT !.minX = IF JsLt(targetX, @) THEN Fin(targetX) ELSE @,
              !.maxX = IF JsGt(targetX, @) THEN Fin(targetX) ELSE @,
              !.minY = IF JsLt(targetY, @) THEN Fin(targetY) ELSE @,
              !.maxY = IF JsGt(targetY, @) THEN Fin(targetY) ELSE @]

\* Target, delta and the extent scan of one source record.
DstTarget ==
    /\ format = "dst" /\ dst.pc = "loop" /\ dst.i <= Len(stitches)
    /\ stitches[dst.i].type # "end"
    /\ LET s == stitches[dst.i]
           targetX == RoundTenth(s.x)
           targetY == RoundTenth(s.y)
       IN  dst' = [DstExtent(dst, targetX, targetY) EXCEPT
                     !.pc = "while",
                     !.dx = targetX - dst.currentX,
                     !.dy = targetY - dst.currentY]
    /\ UNCHANGED <<stitches, format, exp, taj, digVars>>

\* One iteration of "while (|dx| > MAX_STEP || |dy| > MAX_STEP)".
DstSplit ==
    /\ format = "dst" /\ dst.pc = "while"
    /\ (Abs(dst.dx) > MAX_STEP \/ Abs(dst.dy) > MAX_STEP)
    /\ LET stepX == DstClamp(dst.dx)
           stepY == DstClamp(dst.dy)
       IN  dst' = [dst EXCEPT
                     !.bodyParts = Append(@, encodeTajimaStitch(stepX, stepY, "jump")),
                     !.calls = Append(@, [dx |-> stepX, dy |-> stepY, type |-> "jump",
                                          src |-> dst.i, final |-> FALSE]),
                     !.dx = @ - stepX, !.dy = @ - stepY,
                     !.currentX = @ + stepX, !.currentY = @ + stepY,
                     !.stitchCount = @ + 1]
    /\ UNCHANGED <<stitches, format, exp, taj, digVars>>

\* The final step of a source record.
DstFinal ==
    /\ format = "dst" /\ dst.pc = "while"
    /\ ~(Abs(dst.dx) > MAX_STEP \/ Abs(dst.dy) > MAX_STEP)
    /\ LET type == DstFinalType(stitches[dst.i])
       IN  dst' = [dst EXCEPT
                     !.pc = "loop", !.i = @ + 1,
                     !.bodyParts = Append(@, encodeTajimaStitch(dst.dx, dst.dy, type)),
                     !.calls = Append(@, [dx |-> dst.dx, dy |-> dst.dy, type |-> type,
                                          src |-> dst.i, final |-> TRUE]),
                     !.currentX = @ + dst.dx, !.currentY = @ + dst.dy,
                     !.stitchCount = @ + 1]
    /\ UNCHANGED <<stitches, format, exp, taj, digVars>>

coCount(seq) == Cardinality({k \in 1..Len(seq) : seq[k].type = "color_change"})

\* Mutant of DstHeader: ST also counts the terminator record.
DstHeader_CountsTerminator(d) ==
    [ST |-> padStart(toString(d.stitchCount + 1), 7, "0"),
     CO |-> padStart(toString(coCount(stitches)), 3, "0"),
     pX |-> padStart(toString(JsMax0(d.maxX)), 5, "0"),
     nX |-> padStart(toString(JsAbsMin0(d.minX)), 5, "0"),
     pY |-> padStart(toString(JsMax0(d.maxY)), 5, "0"),
     nY |-> padStart(toString(JsAbsMin0(d.minY)), 5, "0")]

\* The header fields createDstFile writes, each a string.
DstHeader(d) ==
    [ST |-> padStart(toString(d.stitchCount), 7, "0"),
     CO |-> padStart(toString(coCount(stitches)), 3, "0"),
     pX |-> padStart(toString(JsMax0(d.maxX)), 5, "0"),
     nX |-> padStart(toString(JsAbsMin0(d.minX)), 5, "0"),
     pY |-> padStart(toString(JsMax0(d.maxY)), 5, "0"),
     nY |-> padStart(toString(JsAbsMin0(d.minY)), 5, "0")]

\* After the loop: the terminator record, the header, the file size.
DstFinish ==
    /\ format = "dst" /\ dst.pc = "loop" /\ dst.i > Len(stitches)
    /\ LET body == Append(dst.bodyParts, encodeTajimaStitch(0, 0, "end"))
       IN  dst' = [dst EXCEPT
                     !.pc = "done",
                     !.bodyParts = body,
                     !.calls = Append(@, [dx |-> 0, dy |-> 0, type |-> "end",
                                          src |-> 0, final |-> TRUE]),
                     !.header = DstHeader(dst),
                     !.totalSize = HEADER_SIZE + Len(body) * 3]
    /\ UNCHANGED <<stitches, format, exp, taj, digVars>>

(***************************************************************************)
(* createExpFile (src/services/vtracerService.ts).  exp.buffer holds the   *)
(* bytes stored so far; a store at an offset outside the preallocated      *)
(* Uint8Array is dropped, as typed arrays do.  exp.calls records each      *)
(* emitted two- or four-byte record: its source index, the kind of the     *)
(* source record and its clamped step.                                     *)
(***************************************************************************)
EXP_MAX_STEP == 120

EXP_BYTES_PER_STITCH == 8

EXP_SLACK == 1024

ExpCapacity(seq) == Len(seq) * EXP_BYTES_PER_STITCH + EXP_SLACK

ExpInit ==
    [pc |-> "loop", i |-> 1, offset |-> 0, buffer |-> <<>>,
     currentX |-> 0, currentY |-> 0, dx |-> 0, dy |-> 0,
     calls |-> <<>>, result |-> <<>>]

\* "buffer[offset++] = b" for each byte of bytes, in order.
RECURSIVE writeBytes(_, _)
writeBytes(e, bytes) ==
    IF bytes = <<>> THEN e
    ELSE writeBytes([e EXCEPT !.buffer = IF e.offset < ExpCapacity(stitches)
                                           THEN Append(@, Head(bytes)) ELSE @,
                              !.offset = @ + 1],
                    Tail(bytes))

\* v & 0xFF
Byte(v) == v % 256

ExpClamp(d) ==
    IF d > EXP_MAX_STEP THEN EXP_MAX_STEP ELSE IF d < -EXP_MAX_STEP THEN -EXP_MAX_STEP ELSE d

\* The bytes of an end, color_change or trim record.
ExpSpecialBytes(type) ==
    IF type = "trim"
    THEN <<128, 4, 0, 0, 128, 4, 0, 0, 128, 4, 0, 0>>
    ELSE <<128, 1, 0, 0>>

\* end, color_change, trim: fixed bytes, then "continue".
ExpSpecial ==
    /\ format = "exp" /\ exp.pc = "loop" /\ exp.i <= Len(stitches)
    /\ stitches[exp.i].type \in {"end", "color_change", "trim"}
    /\ LET s == stitches[exp.i]
           e == writeBytes(exp, ExpSpecialBytes(s.type))
           c == [src |-> exp.i, kind |-> s.type, stepX |-> 0, stepY |-> 0]
       IN  exp' = [e EXCEPT !.i = @ + 1,
                            !.calls = @ \o (IF s.type = "trim" THEN <<c, c, c>> ELSE <<c>>)]
    /\ UNCHANGED <<stitches, format, dst, taj, digVars>>

\* stitch, jump: target and delta.
ExpMove ==
    /\ format = "exp" /\ exp.pc = "loop" /\ exp.i <= Len(stitches)
    /\ stitches[exp.i].type \in {"stitch", "jump"}
    /\ LET s == stitches[exp.i]
       IN  exp' = [exp EXCEPT !.pc = "while",
                              !.dx = RoundTenth(s.x) - exp.currentX,
                              !.dy = RoundTenth(s.y) - exp.currentY]
    /\ UNCHANGED <<stitches, format, dst, taj, digVars>>

\* One iteration of "while (dx !== 0 || dy !== 0)".
ExpSplit ==
    /\ format = "exp" /\ exp.pc = "while"
    /\ (exp.dx # 0 \/ exp.dy # 0)
    /\ LET s == stitches[exp.i]
           stepX == ExpClamp(exp.dx)
           stepY == ExpClamp(exp.dy)
           bytes == IF s.type = "jump"
                    THEN <<128, 4, Byte(stepX), Byte(stepY)>>
                    ELSE <<Byte(stepX), Byte(stepY)>>
           e == writeBytes(exp, bytes)
       IN  exp' = [e EXCEPT !.dx = @ - stepX, !.dy = @ - stepY,
                            !.currentX = @ + stepX, !.currentY = @ + stepY,
                            !.calls = Append(@, [src |-> exp.i, kind |-> s.type,
                                                 stepX |-> stepX, stepY |-> stepY])]
    /\ UNCHANGED <<stitches, format, dst, taj, digVars>>

\* The while loop ends: next source record.
ExpMoveDone ==
    /\ format = "exp" /\ exp.pc = "while"
    /\ ~(exp.dx # 0 \/ exp.dy # 0)
    /\ exp' = [exp EXCEPT !.pc = "loop", !.i = @ + 1]
    /\ UNCHANGED <<stitches, format, dst, taj, digVars>>

\* "return buffer.slice(0, offset)"
ExpReturn ==
    /\ format = "exp" /\ exp.pc = "loop" /\ exp.i > Len(stitches)
    /\ exp' = [exp EXCEPT !.pc = "done", !.result = exp.buffer]
    /\ UNCHANGED <<stitches, format, dst, taj, digVars>>

(***************************************************************************)
(* The encoders' specification: the caller (handleDownload, src/App.tsx)   *)
(* hands a stitch list to the encoder of the selected format.              *)
(***************************************************************************)
\* Longest stitch list handed to an encoder.
MaxStitches == 3

\* The records the input lists are built from, coordinates in 0.001 mm.
EncStitches ==
    { Stitch(0, 0, "stitch", FALSE),
      Stitch(5000, -3200, "stitch", FALSE),
      Stitch(50, 200, "stitch", FALSE),
      Stitch(30000, -250, "stitch", FALSE),
      Stitch(-12100, 12200, "stitch", TRUE),
      Stitch(15000, 0, "jump", TRUE),
      Stitch(-26000, 13000, "jump", TRUE),
      Stitch(0, 0, "jump", TRUE),
      Stitch(5000, -3200, "color_change", TRUE),
      Stitch(0, 0, "color_change", TRUE),
      Stitch(5000, -3200, "trim", TRUE),
      Stitch(5000, -3200, "end", FALSE) }

SeqsUpTo(S, n) == UNION {[1..k -> S] : k \in 0..n}

TajIdle == [pc |-> "idle", dx |-> 0, dy |-> 0, type |-> "stitch", b |-> <<0, 0, 0>>]

\* A stitch at 3276.8 mm: its target is 32768 units of 0.1 mm.
OverflowInput == << Stitch(0, 0, "stitch", FALSE), Stitch(3276800, 0, "stitch", FALSE) >>

\* A single jump of 3100 mm: 259 parts of at most 120 units.
LongJumpInput == << Stitch(3100000, 0, "jump", TRUE) >>

EncodeInit ==
    /\ stitches \in SeqsUpTo(EncStitches, MaxStitches) \cup {OverflowInput, LongJumpInput}
    /\ format \in {"dst", "exp"}
    /\ dst = DstInit
    /\ exp = ExpInit
    /\ taj = TajIdle
    /\ DigIdle

EncodeNext ==
    \/ DstSkipEnd \/ DstTarget \/ DstSplit \/ DstFinal \/ DstFinish
    \/ ExpSpecial \/ ExpMove \/ ExpSplit \/ ExpMoveDone \/ ExpReturn

SpecEncode == EncodeInit /\ [][EncodeNext]_vars

(***************************************************************************)
(* encodeTajimaStitch alone, on every step a body record may carry.        *)
(***************************************************************************)
TajimaTypes == {"stitch", "jump", "stop", "end"}

TajimaInit ==
    /\ taj \in [pc : {"call"}, dx : -MAX_STEP..MAX_STEP, dy : -MAX_STEP..MAX_STEP,
                 type : TajimaTypes, b : {<<0, 0, 0>>}]
    /\ stitches = <<>>
    /\ format = "dst"
    /\ dst = DstInit
    /\ exp = ExpInit
    /\ DigIdle

TajimaEncode ==
    /\ taj.pc = "call"
    /\ taj' = [taj EXCEPT !.pc = "return", !.b = encodeTajimaStitch(taj.dx, taj.dy, taj.type)]
    /\ UNCHANGED <<stitches, format, dst, exp, digVars>>

TajimaNext == TajimaEncode

SpecTajima == TajimaInit /\ [][TajimaNext]_vars

(***************************************************************************)
(* Reading the encoders' output back: the decoders the claims use.         *)
(***************************************************************************)
BitSet(b, m) == (b \div m) % 2 = 1

\* The Tajima bit table: <<weight, byte, mask of the + bit, mask of the - bit>>.
DstYBits == << <<1, 1, 1, 2>>, <<9, 1, 4, 8>>, <<3, 2, 128, 64>>,
               <<27, 2, 32, 16>>, <<81, 3, 4, 8>> >>

DstXBits == << <<1, 1, 128, 64>>, <<9, 1, 32, 16>>, <<3, 2, 8, 4>>,
               <<27, 2, 2, 1>>, <<81, 3, 16, 32>> >>

RECURSIVE DecodeAxis(_, _, _)
DecodeAxis(bits, k, b) ==
    IF k > Len(bits) THEN 0
    ELSE (IF BitSet(b[bits[k][2]], bits[k][3]) THEN bits[k][1] ELSE 0)
         - (IF BitSet(b[bits[k][2]], bits[k][4]) THEN bits[k][1] ELSE 0)
         + DecodeAxis(bits, k + 1, b)

DecodeDx(b) == DecodeAxis(DstXBits, 1, b)

DecodeDy(b) == DecodeAxis(DstYBits, 1, b)

\* No weight of the record has both its + and its - bit set.
NoWeightTwice(b) ==
    \A t \in {DstXBits[k] : k \in 1..5} \cup {DstYBits[k] : k \in 1..5} :
        ~(BitSet(b[t[2]], t[3]) /\ BitSet(b[t[2]], t[4]))

\* Bits 7 and 6 of byte 2: 0 = none, 2 = bit 7 only, 3 = both.
DstControlBits(b) == (b[3] \div 64) % 4

\* The decoded position after the first k body records.
RECURSIVE DstDecodedPos(_, _)
DstDecodedPos(body, k) ==
    IF k = 0 THEN <<0, 0>>
    ELSE LET p == DstDecodedPos(body, k - 1)
         IN  <<p[1] + DecodeDx(body[k]), p[2] + DecodeDy(body[k])>>

SignedByte(b) == IF b >= 128 THEN b - 256 ELSE b

\* The EXP body as records: 0x80 opens a four-byte command, anything else a stitch.
RECURSIVE ExpParse(_)
ExpParse(bytes) ==
    IF Len(bytes) < 2 THEN <<>>
    ELSE IF bytes[1] = 128
         THEN IF Len(bytes) < 4 THEN <<>>
              ELSE <<[cmd |-> bytes[2], dx |-> SignedByte(bytes[3]), dy |-> SignedByte(bytes[4])]>>
                   \o ExpParse(SubSeq(bytes, 5, Len(bytes)))
         ELSE <<[cmd |-> 0, dx |-> SignedByte(bytes[1]), dy |-> SignedByte(bytes[2])]>>
              \o ExpParse(SubSeq(bytes, 3, Len(bytes)))

RECURSIVE ExpDecodedPos(_, _)
ExpDecodedPos(recs, k) ==
    IF k = 0 THEN <<0, 0>>
    ELSE LET p == ExpDecodedPos(recs, k - 1)
         IN  <<p[1] + recs[k].dx, p[2] + recs[k].dy>>

Target(s) == <<RoundTenth(s.x), RoundTenth(s.y)>>

SetMax(S) == CHOOSE m \in S : \A n \in S : n <= m

SetMin(S) == CHOOSE m \in S : \A n \in S : m <= n

\* The body records (indices into calls) that belong to source record j.
DstCallsOf(j) == {k \in 1..Len(dst.calls) : dst.calls[k].src = j}

ExpCallsOf(j) == {k \in 1..Len(exp.calls) : exp.calls[k].src = j}

\* The records that move the frame, and the position the encoder should
\* stand at before source record j: the target of the last such record before j.
DstMoves(j) == {k \in 1..(j - 1) : stitches[k].type # "end"}

DstPosBefore(j) == IF DstMoves(j) = {} THEN <<0, 0>> ELSE Target(stitches[SetMax(DstMoves(j))])

ExpMoves(j) == {k \in 1..(j - 1) : stitches[k].type \in {"stitch", "jump"}}

ExpPosBefore(j) == IF ExpMoves(j) = {} THEN <<0, 0>> ELSE Target(stitches[SetMax(ExpMoves(j))])

IsFaceStitch(s) == s.type = "stitch" /\ ~s.isStructure

DigitValue(c) == CHOOSE d \in 0..9 : Digit(d) = c

RECURSIVE ParseNat(_)
ParseNat(str) ==
    IF str = <<>> THEN 0
    ELSE 10 * ParseNat(SubSeq(str, 1, Len(str) - 1)) + DigitValue(str[Len(str)])

(***************************************************************************)
(* C4.  Decoding either encoder's body from (0,0) gives, at the record     *)
(* that closes each non-structural stitch of the input, the rounded target *)
(* of that stitch.                                                         *)
(***************************************************************************)
C4_DstRoundTrip ==
    (format = "dst" /\ dst.pc = "done") =>
        \A k \in 1..Len(dst.calls) :
            (dst.calls[k].final /\ dst.calls[k].src # 0
               /\ IsFaceStitch(stitches[dst.calls[k].src]))
            => DstDecodedPos(dst.bodyParts, k) = Target(stitches[dst.calls[k].src])

C4_ExpRoundTrip ==
    (format = "exp" /\ exp.pc = "done") =>
        LET recs == ExpParse(exp.result)
        IN  /\ Len(recs) = Len(exp.calls)
            /\ \A j \in 1..Len(stitches) :
                   IsFaceStitch(stitches[j])
                   => ExpDecodedPos(recs, Cardinality({k \in 1..Len(exp.calls) :
                                                         exp.calls[k].src <= j}))
                      = Target(stitches[j])

C4_RoundTrip == C4_DstRoundTrip /\ C4_ExpRoundTrip

(***************************************************************************)
(* C5.  For every delta in -121..121 on either axis the signed sum of the  *)
(* weights whose bits encodeTajimaStitch sets equals the delta, and no     *)
(* weight has both its + and its - bit set.                                *)
(***************************************************************************)
C5_TajimaDecodes ==
    taj.pc = "return" =>
        /\ DecodeDx(taj.b) = taj.dx
        /\ DecodeDy(taj.b) = taj.dy
        /\ NoWeightTwice(taj.b)

(***************************************************************************)
(* C6.  In createDstFile every body record carries a step within +-121 on  *)
(* both axes; each source record is emitted as its intermediate records,   *)
(* flagged jump (bit 7 only) and present when its step exceeds 121, then   *)
(* exactly one final record with the control bits of its kind; after each  *)
(* source record the tracked position is that record's rounded target.     *)
(***************************************************************************)
Oversize(from, to) == Abs(to[1] - from[1]) > 121 \/ Abs(to[2] - from[2]) > 121

C6_DstSourceRecord(j) ==
    LET ks == DstCallsOf(j)
        s == stitches[j]
    IN  /\ ks # {}
        /\ ks = SetMin(ks)..SetMax(ks)
        /\ \A k \in ks \ {SetMax(ks)} :
               ~dst.calls[k].final /\ DstControlBits(dst.bodyParts[k]) = 2
        /\ dst.calls[SetMax(ks)].final
        /\ s.type = "stitch" => DstControlBits(dst.bodyParts[SetMax(ks)]) = 0
        /\ s.type = "jump" => DstControlBits(dst.bodyParts[SetMax(ks)]) = 2
        /\ s.type = "color_change" => DstControlBits(dst.bodyParts[SetMax(ks)]) = 3
        /\ Oversize(DstPosBefore(j), Target(s)) <=> Cardinality(ks) >= 2

C6_DstStepsCapped ==
    format = "dst" =>
        /\ \A k \in 1..Len(dst.calls) :
               /\ Abs(dst.calls[k].dx) <= 121 /\ Abs(dst.calls[k].dy) <= 121
               /\ Abs(DecodeDx(dst.bodyParts[k])) <= 121
               /\ Abs(DecodeDy(dst.bodyParts[k])) <= 121
        /\ \A j \in 1..Len(stitches) :
               (j < dst.i /\ stitches[j].type # "end") => C6_DstSourceRecord(j)
        /\ dst.pc \in {"loop", "done"}
               => <<dst.currentX, dst.currentY>> = DstPosBefore(dst.i)

\* A finished file in which a stitch and a color change were both split.
C6_Witness ==
    /\ format = "dst" /\ dst.pc = "done"
    /\ \E j, k \in 1..Len(stitches) :
          /\ stitches[j].type = "stitch" /\ Cardinality(DstCallsOf(j)) >= 3
          /\ stitches[k].type = "color_change" /\ Cardinality(DstCallsOf(k)) >= 2

(***************************************************************************)
(* C7.  The ST header field is seven digits and equals the number of body  *)
(* records minus the terminator, split records included; the file is       *)
(* 512 + 3 * (ST + 1) bytes long.                                          *)
(***************************************************************************)
C7_DstStitchCount ==
    (format = "dst" /\ dst.pc = "done") =>
        /\ Len(dst.header.ST) = 7
        /\ ParseNat(dst.header.ST) = Len(dst.bodyParts) - 1
        /\ dst.totalSize = 512 + 3 * (ParseNat(dst.header.ST) + 1)

\* A finished file with split records among its body records.
C7_Witness ==
    /\ format = "dst" /\ dst.pc = "done"
    /\ \E k \in 1..Len(dst.calls) : ~dst.calls[k].final
    /\ Len(dst.bodyParts) > Len(stitches) + 1

(***************************************************************************)
(* C8.  The four extent fields are max(0, max target) and |min(0, min      *)
(* target)| over the absolute rounded targets of all non-end records; for  *)
(* stitch(0,0), stitch(5.0,-3.2), end the header reads +X:00050, -X:00000, *)
(* +Y:00000, -Y:00032, and ST is as given below.                           *)
(***************************************************************************)
S4_Input ==
    << Stitch(0, 0, "stitch", FALSE), Stitch(5000, -3200, "stitch", FALSE),
       Stitch(5000, -3200, "end", FALSE) >>

TargetsX == {RoundTenth(stitches[k].x) : k \in DstMoves(Len(stitches) + 1)}

TargetsY == {RoundTenth(stitches[k].y) : k \in DstMoves(Len(stitches) + 1)}

C8_Extents ==
    /\ \A f \in {"pX", "nX", "pY", "nY"} : Len(dst.header[f]) = 5
    /\ ParseNat(dst.header.pX) = (IF TargetsX = {} THEN 0 ELSE Max(0, SetMax(TargetsX)))
    /\ ParseNat(dst.header.nX) = (IF TargetsX = {} THEN 0 ELSE Abs(Min(0, SetMin(TargetsX))))
    /\ ParseNat(dst.header.pY) = (IF TargetsY = {} THEN 0 ELSE Max(0, SetMax(TargetsY)))
    /\ ParseNat(dst.header.nY) = (IF TargetsY = {} THEN 0 ELSE Abs(Min(0, SetMin(TargetsY))))

C8_S4Extents ==
    /\ dst.header.pX = <<"0", "0", "0", "5", "0">>
    /\ dst.header.nX = <<"0", "0", "0", "0", "0">>
    /\ dst.header.pY = <<"0", "0", "0", "0", "0">>
    /\ dst.header.nY = <<"0", "0", "0", "3", "2">>

\* The claim as written: ST:0000003 for the S4 input.
C8_HeaderST3 ==
    (format = "dst" /\ dst.pc = "done") =>
        /\ C8_Extents
        /\ stitches = S4_Input =>
               C8_S4Extents /\ dst.header.ST = <<"0", "0", "0", "0", "0", "0", "3">>

\* The claim as amended: ST:0000002 for the S4 input (two body records
\* before the terminator).
C8_HeaderST2 ==
    (format = "dst" /\ dst.pc = "done") =>
        /\ C8_Extents
        /\ stitches = S4_Input =>
               C8_S4Extents /\ dst.header.ST = <<"0", "0", "0", "0", "0", "0", "2">>

\* The S4 file is written.
C8_Witness == format = "dst" /\ dst.pc = "done" /\ stitches = S4_Input

(***************************************************************************)
(* C9.  In createExpFile every stitch record is encoded as one or more     *)
(* two-byte records and every jump record as one or more four-byte records *)
(* 0x80 0x04 dx dy, each delta within +-120 in two's complement, the       *)
(* deltas summing to the step from the current position; a step within     *)
(* +-120, the zero step included, gives exactly one record; a jump to      *)
(* (15.0, 0.0) from the origin gives 80 04 78 00, 80 04 1E 00.             *)
(***************************************************************************)
ExpRecordBytes(c) ==
    IF c.kind = "trim" THEN <<128, 4, 0, 0>>
    ELSE IF c.kind \in {"end", "color_change"} THEN <<128, 1, 0, 0>>
    ELSE IF c.kind = "jump" THEN <<128, 4, c.stepX % 256, c.stepY % 256>>
    ELSE <<c.stepX % 256, c.stepY % 256>>

RECURSIVE ExpBytesOf(_)
ExpBytesOf(cs) == IF cs = <<>> THEN <<>> ELSE ExpRecordBytes(Head(cs)) \o ExpBytesOf(Tail(cs))

RECURSIVE SumOver(_, _, _)
SumOver(S, cs, axis) ==
    IF S = {} THEN 0
    ELSE LET k == CHOOSE k \in S : TRUE
         IN  (IF axis = 1 THEN cs[k].stepX ELSE cs[k].stepY) + SumOver(S \ {k}, cs, axis)

ExpFits(from, to) == Abs(to[1] - from[1]) <= 120 /\ Abs(to[2] - from[2]) <= 120

C9_ExpSourceRecord(j, zeroStepToo) ==
    LET ks == ExpCallsOf(j)
        from == ExpPosBefore(j)
        to == Target(stitches[j])
    IN  /\ (zeroStepToo \/ to # from) => ks # {}
        /\ \A k \in ks : Abs(exp.calls[k].stepX) <= 120 /\ Abs(exp.calls[k].stepY) <= 120
        /\ SumOver(ks, exp.calls, 1) = to[1] - from[1]
        /\ SumOver(ks, exp.calls, 2) = to[2] - from[2]
        /\ (ExpFits(from, to) /\ (zeroStepToo \/ to # from)) => Cardinality(ks) = 1

C9_ExpBody(zeroStepToo) ==
    (format = "exp" /\ exp.pc = "done") =>
        /\ exp.result = ExpBytesOf(exp.calls)
        /\ \A k \in 1..Len(exp.calls) :
               LET r == ExpParse(ExpRecordBytes(exp.calls[k]))[1]
               IN  exp.calls[k].kind \in {"stitch", "jump"}
                   => r.dx = exp.calls[k].stepX /\ r.dy = exp.calls[k].stepY
        /\ \A j \in 1..Len(stitches) :
               stitches[j].type \in {"stitch", "jump"} => C9_ExpSourceRecord(j, zeroStepToo)
        /\ stitches = <<Stitch(15000, 0, "jump", TRUE)>>
               => exp.result = <<128, 4, 120, 0, 128, 4, 30, 0>>

\* The claim as written, the zero step included.
C9_ExpRecords == C9_ExpBody(TRUE)

\* The same for the steps that are not zero (what the code does).
C9_ExpRecordsNonZero == C9_ExpBody(FALSE)

(***************************************************************************)
(* Geometry kernel (src/unnamed/part_000), in fixed point.  A length is an *)
(* integer number of 0.001 mm; a unit vector, a cosine or any other ratio  *)
(* is an integer number of 1/One.  Quotients and square roots are rounded  *)
(* to the nearest integer; a comparison of a distance with a length is     *)
(* made exactly, on the squares.                                           *)
(***************************************************************************)
One == 100 * 100

\* "const x = v; return F(x)": F at the value of v, v computed once.
Bind(v, F(_)) == CHOOSE r \in {F(x) : x \in {v}} : TRUE

\* A loop of the source is a state s, its exit test Done and the effect Step
\* of one turn.  RunTurns runs at most 2^level turns.
RECURSIVE RunTurns(_, _, _, _)
RunTurns(Done(_), Step(_), s, level) ==
    IF Done(s) THEN s
    ELSE IF level = 0 THEN Step(s)
    ELSE Bind(RunTurns(Done, Step, s, level - 1),
              LAMBDA t : RunTurns(Done, Step, t, level - 1))

\* The loop runs one turn, then two, then four, ... until its exit test holds.
RECURSIVE RunFrom(_, _, _, _)
RunFrom(Done(_), Step(_), s, level) ==
    IF Done(s) THEN s
    ELSE Bind(RunTurns(Done, Step, s, level),
              LAMBDA t : RunFrom(Done, Step, t, level + 1))

RunLoop(Done(_), Step(_), s) == Bind(s, LAMBDA s0 : RunFrom(Done, Step, s0, 0))

\* The concatenation of F(lo), ..., F(hi).
RECURSIVE Concat(_, _, _)
Concat(F(_), lo, hi) ==
    IF lo > hi THEN <<>>
    ELSE IF lo = hi THEN F(lo)
    ELSE Bind((lo + hi) \div 2, LAMBDA mid : Concat(F, lo, mid) \o Concat(F, mid + 1, hi))

Pt(px, py) == [x |-> px, y |-> py]

\* The nearest integer to a / b, for b > 0.
DivRound(a, b) == (2 * a + b) \div (2 * b)

\* The largest r in lo..hi with r * r <= n.
RECURSIVE SqrtSearch(_, _, _)
SqrtSearch(n, lo, hi) ==
    IF lo >= hi THEN lo
    ELSE Bind((lo + hi + 1) \div 2,
              LAMBDA mid : IF mid * mid <= n THEN SqrtSearch(n, mid, hi)
                           ELSE SqrtSearch(n, lo, mid - 1))

SqrtFloor(n) == Bind(n, LAMBDA m : SqrtSearch(m, 0, 46340))

\* Math.sqrt, to the nearest integer.
Sqrt(n) == Bind(n, LAMBDA m : Bind(SqrtFloor(m),
                LAMBDA r : IF m - r * r > r THEN r + 1 ELSE r))

distSq(p1, p2) == (p1.x - p2.x) * (p1.x - p2.x) + (p1.y - p2.y) * (p1.y - p2.y)

dist(p1, p2) == Sqrt(distSq(p1, p2))

\* dist(p1, p2) > c and dist(p1, p2) < c, exactly.
DistGt(p1, p2, c) == c < 0 \/ distSq(p1, p2) > c * c

DistLt(p1, p2, c) == c > 0 /\ distSq(p1, p2) < c * c

\* Math.ceil(d / len) for d the square root of dSq and len > 0.
CeilDist(dSq, len) ==
    Bind(SqrtFloor(dSq),
         LAMBDA r : IF r * r = dSq THEN (r + len - 1) \div len ELSE r \div len + 1)

addPoints(p1, p2) == Pt(p1.x + p2.x, p1.y + p2.y)

subPoints(p1, p2) == Pt(p1.x - p2.x, p1.y - p2.y)

\* scalePoint of a unit vector n (in 1/One) by a length.
scalePoint(n, len) == Pt(DivRound(n.x * len, One), DivRound(n.y * len, One))

\* dotProduct of two unit vectors, in 1/One.
dotProduct(n1, n2) == DivRound(n1.x * n2.x + n1.y * n2.y, One)

\* interpolatePoints(p1, p2, t) for t = num / den.
interpolatePoints(p1, p2, num, den) ==
    Pt(p1.x + DivRound((p2.x - p1.x) * num, den), p1.y + DivRound((p2.y - p1.y) * num, den))

\* The unit vector of q, a vector that is not zero.
unitOf(q) == Bind(Sqrt(q.x * q.x + q.y * q.y),
                  LAMBDA len : Pt(DivRound(q.x * One, len), DivRound(q.y * One, len)))

\* normalize: the unit vector of p in 1/One, (0, 0) for the zero vector.  A
\* short p is first enlarged so that its length is known to 4 digits.
normalize(p) ==
    Bind(p, LAMBDA v :
        IF v.x = 0 /\ v.y = 0 THEN Pt(0, 0)
        ELSE Bind(Max(1, 20000 \div Max(Abs(v.x), Abs(v.y))),
                  LAMBDA k : unitOf(Pt(v.x * k, v.y * k))))

\* The length of a vector given in 1/One, in 1/One.
VecLen(n) == Sqrt(n.x * n.x + n.y * n.y)

\* A sequence given by a rule, with every element computed.
Computed(s) == <<>> \o s

MITER_FLOOR_DIV == 10

OFFSET_MITER_MAX == 2

\* 1 / Math.max(0.1, (1 + dot) / 2), then Math.min(miter, 2.0), in 1/One.
offsetMiter(dot) ==
    Min(DivRound(2 * One * One, Max((2 * One) \div MITER_FLOOR_DIV, One + dot)),
        OFFSET_MITER_MAX * One)

\* The vertex curr displaced along the averaged normal of the edge
\* directions v1 (into curr) and v2 (out of curr).
offsetAlong(curr, v1, v2, offsetMm) ==
    Bind(normalize(Pt(-v1.y - v2.y, v1.x + v2.x)), LAMBDA avgN :
    Bind(DivRound(offsetMm * offsetMiter(dotProduct(Pt(-v1.y, v1.x), Pt(-v2.y, v2.x))), One),
         LAMBDA len : addPoints(curr, scalePoint(avgN, len))))

\* offsetPolygon: neighbours are taken cyclically over all points.
offsetVertex(path, i, offsetMm) ==
    Bind(normalize(subPoints(path[i], path[((i - 2 + Len(path)) % Len(path)) + 1])),
         LAMBDA v1 :
    Bind(normalize(subPoints(path[(i % Len(path)) + 1], path[i])),
         LAMBDA v2 : offsetAlong(path[i], v1, v2, offsetMm)))

offsetPolygon(path, offsetMm) ==
    IF Len(path) < 3 THEN path
    ELSE Computed([i \in 1..Len(path) |-> offsetVertex(path, i, offsetMm)])

(***************************************************************************)
(* Stitch records of the digitizer: a field the source leaves out          *)
(* (isStructure of a face stitch) is FALSE.                                *)
(***************************************************************************)
StitchAt(p, t, colorIdx, hexColor, structure) ==
    [x |-> p.x, y |-> p.y, type |-> t, colorIndex |-> colorIdx, hexColor |-> hexColor,
     isStructure |-> structure]

\* The "stitches[0]" of an empty array, and the record "{...undefined, type: 'end'}".
Undefined == [undefined |-> TRUE]

IsUndefined(s) == "undefined" \in DOMAIN s

(***************************************************************************)
(* generateRunningStitches                                                 *)
(***************************************************************************)
DEDUPE_EPS == 10

DEFAULT_RUN_LEN == 2500

\* One turn of the loop that copies pathMm[i] unless it repeats the last point.
cleanPathStep(pathMm, s) ==
    [i |-> s.i + 1,
     cleanPath |-> IF DistGt(Last(s.cleanPath), pathMm[s.i], DEDUPE_EPS)
                   THEN Append(s.cleanPath, pathMm[s.i]) ELSE s.cleanPath]

cleanPathOf(pathMm) ==
    RunLoop(LAMBDA s : s.i > Len(pathMm), LAMBDA s : cleanPathStep(pathMm, s),
            [i |-> 2, cleanPath |-> <<pathMm[1]>>]).cleanPath

\* The steps are counted with Math.floor.
runSegment_FloorSteps(prev, curr, maxRunLen, colorIdx, hexColor) ==
    IF DistGt(prev, curr, maxRunLen)
    THEN Bind(SqrtFloor(distSq(prev, curr)) \div maxRunLen, LAMBDA steps :
              Computed([st \in 1..steps |->
                  StitchAt(interpolatePoints(prev, curr, st, steps), "stitch",
                           colorIdx, hexColor, FALSE)]))
    ELSE <<StitchAt(curr, "stitch", colorIdx, hexColor, FALSE)>>

\* The stitches of the segment prev -> curr: its end point, or the points
\* of Math.ceil(d / MAX_RUN_LEN) equal steps.
runSegment(prev, curr, maxRunLen, colorIdx, hexColor) ==
    IF DistGt(prev, curr, maxRunLen)
    THEN Bind(CeilDist(distSq(prev, curr), maxRunLen), LAMBDA steps :
              Computed([st \in 1..steps |->
                  StitchAt(interpolatePoints(prev, curr, st, steps), "stitch",
                           colorIdx, hexColor, FALSE)]))
    ELSE <<StitchAt(curr, "stitch", colorIdx, hexColor, FALSE)>>

\* The first point of cleanPath, then the stitches of its segments in order.
runStitches(cleanPath, maxRunLen, colorIdx, hexColor) ==
    <<StitchAt(cleanPath[1], "stitch", colorIdx, hexColor, FALSE)>> \o
    Concat(LAMBDA i : runSegment(cleanPath[i - 1], cleanPath[i], maxRunLen,
                                 colorIdx, hexColor),
           2, Len(cleanPath))

generateRunningStitches(pathMm, cfg, colorIdx, hexColor) ==
    IF Len(pathMm) < 2 THEN <<>>
    ELSE Bind(cleanPathOf(pathMm), LAMBDA cleanPath :
              IF Len(cleanPath) < 2 THEN <<>>
              ELSE runStitches(cleanPath,
                               IF cfg.maxStitchLengthMm > 0 THEN cfg.maxStitchLengthMm
                               ELSE DEFAULT_RUN_LEN,
                               colorIdx, hexColor))

(***************************************************************************)
(* addTieIn, addTieOff, removeSmallStitches                                *)
(***************************************************************************)
TIE_IN_LEN == 500

TIE_OFF_LEN == 500

SMALL_EPS == 10

addTieIn(sts) ==
    IF Len(sts) = 0 THEN <<>>
    ELSE LET first == sts[1]
         IN  IF first.type \in {"jump", "end"} THEN sts
             ELSE << StitchAt(Pt(first.x + TIE_IN_LEN, first.y), "stitch",
                              first.colorIndex, first.hexColor, TRUE),
                     StitchAt(first, "stitch", first.colorIndex, first.hexColor, TRUE) >>
                  \o sts

addTieOff(sts) ==
    IF Len(sts) = 0 THEN <<>>
    ELSE LET last == Last(sts)
         IN  IF last.type \in {"jump", "end"} THEN sts
             ELSE sts \o
                  << StitchAt(Pt(last.x - TIE_OFF_LEN, last.y), "stitch",
                              last.colorIndex, last.hexColor, TRUE),
                     StitchAt(last, "stitch", last.colorIndex, last.hexColor, TRUE),
                     StitchAt(last, "trim", last.colorIndex, last.hexColor, TRUE) >>

\* The test that drops curr: a stitch with d < minLen && d > 0.01.
isSmallStitch(prev, curr, minLen) ==
    /\ curr.type = "stitch"
    /\ DistLt(prev, curr, minLen)
    /\ DistGt(prev, curr, SMALL_EPS)

\* The distance is taken from the record before stitches[i] in the input.
removeSmallStep_PrevInput(sts, minLen, s) ==
    [i |-> s.i + 1,
     result |-> IF isSmallStitch(sts[s.i - 1], sts[s.i], minLen) THEN s.result
                ELSE Append(s.result, sts[s.i])]

\* One turn of the loop: stitches[i] is dropped or pushed.
removeSmallStep(sts, minLen, s) ==
    [i |-> s.i + 1,
     result |-> IF isSmallStitch(Last(s.result), sts[s.i], minLen) THEN s.result
                ELSE Append(s.result, sts[s.i])]

\* "result = [stitches[0]]": of an empty list that is [undefined].
removeSmallStitches(sts, minLen) ==
    IF Len(sts) = 0 THEN <<Undefined>>
    ELSE RunLoop(LAMBDA s : s.i > Len(sts), LAMBDA s : removeSmallStep(sts, minLen, s),
                 [i |-> 2, result |-> <<sts[1]>>]).result

(***************************************************************************)
(* resamplePath                                                            *)
(***************************************************************************)
\* One turn of the loop over path[i]; a turn that emits a point keeps i
\* ("i--" and then "i++").
resampleStep(path, spacing, s) ==
    Bind(dist(s.prev, path[s.i]), LAMBDA d :
        IF s.accumulatedDist + d >= spacing
        THEN Bind(interpolatePoints(s.prev, path[s.i], spacing - s.accumulatedDist, d),
                  LAMBDA nextPoint :
                      [i |-> s.i, prev |-> nextPoint, accumulatedDist |-> 0,
                       newPath |-> Append(s.newPath, nextPoint)])
        ELSE [i |-> s.i + 1, prev |-> path[s.i], accumulatedDist |-> s.accumulatedDist + d,
              newPath |-> s.newPath])

resamplePath(path, spacing) ==
    IF Len(path) < 2 THEN path
    ELSE Append(RunLoop(LAMBDA s : s.i > Len(path), LAMBDA s : resampleStep(path, spacing, s),
                        [i |-> 2, prev |-> path[1], accumulatedDist |-> 0,
                         newPath |-> <<path[1]>>]).newPath,
                Last(path))

(***************************************************************************)
(* generateSatinStitches                                                   *)
(***************************************************************************)
\* tangentLen < 0.001 and Math.abs(dot) > 0.1, as divisors of 1.
TANGENT_EPS_DIV == 1000

MITER_DOT_DIV == 10

MITER_LIMIT_FACTOR == 3

\* halfWidth / dot, when Math.abs(dot) > 0.1.
miterByDot(halfWidth, dot) ==
    IF dot > 0 THEN DivRound(halfWidth * One, dot) ELSE -DivRound(halfWidth * One, -dot)

\* miterLength is not cut at MITER_LIMIT.
miterLengthOf_Unclamped(halfWidth, degenerate, miterVector, n1) ==
    Bind(dotProduct(miterVector, n1), LAMBDA dot :
         IF ~degenerate /\ Abs(dot) * MITER_DOT_DIV > One THEN miterByDot(halfWidth, dot)
         ELSE halfWidth)

\* miterLength for the miter vector and the normal n1, cut at MITER_LIMIT.
miterLengthOf(halfWidth, degenerate, miterVector, n1) ==
    Bind(dotProduct(miterVector, n1), LAMBDA dot :
    Bind(IF ~degenerate /\ Abs(dot) * MITER_DOT_DIV > One THEN miterByDot(halfWidth, dot)
         ELSE halfWidth,
         LAMBDA miterLength : IF miterLength > halfWidth * MITER_LIMIT_FACTOR
                              THEN halfWidth * MITER_LIMIT_FACTOR ELSE miterLength))

\* The rail points at curr for the directions v1 (into curr) and v2 (out of it).
railsAt(curr, v1, v2, halfWidth) ==
    Bind(VecLen(addPoints(v1, v2)) * TANGENT_EPS_DIV < One, LAMBDA degenerate :
    Bind(IF degenerate THEN Pt(-v1.y, v1.x)
         ELSE Bind(normalize(addPoints(v1, v2)), LAMBDA bisector : Pt(-bisector.y, bisector.x)),
         LAMBDA miterVector :
    Bind(scalePoint(miterVector,
                    miterLengthOf(halfWidth, degenerate, miterVector, Pt(-v1.y, v1.x))),
         LAMBDA reach : [left |-> addPoints(curr, reach), right |-> subPoints(curr, reach)])))

\* The left and right rail points at resampled[i]; the neighbour missing at
\* an end is the mirror image of the other one.
satinRail(resampled, i, halfWidth) ==
    LET curr == resampled[i]
        prev == IF i > 1 THEN resampled[i - 1]
                ELSE subPoints(curr, subPoints(resampled[i + 1], curr))
        next == IF i < Len(resampled) THEN resampled[i + 1]
                ELSE addPoints(curr, subPoints(curr, resampled[i - 1]))
    IN  Bind(normalize(subPoints(curr, prev)), LAMBDA v1 :
        Bind(normalize(subPoints(next, curr)), LAMBDA v2 :
             railsAt(curr, v1, v2, halfWidth)))

SHORTENING_RATIO_PCT == 60

CRITICAL_DENSITY == 400

SHORTEN_AMOUNT_PCT == 30

SATIN_DEFAULT_MAX == 7000

SHIFT_MARGIN == 100

SHIFT_MIN == 500

SHIFT_MAX == 2000

\* The doubled entries of "pattern = [0, 0.5, -0.5]".
shiftPattern2 == <<0, 1, -1>>

\* The two ends of the crossing at rail index i (index i - 1 of the source):
\* on an odd crossing the end on the crowded rail is pulled in.
crossingEnds(rails, i) ==
    LET l == rails[i].left
        r == rails[i].right
    IN  IF i - 1 > 0 /\ (i - 1) % 2 # 0
        THEN Bind(dist(l, rails[i - 1].left), LAMBDA dLeft :
             Bind(dist(r, rails[i - 1].right), LAMBDA dRight :
                IF 100 * dLeft < dRight * SHORTENING_RATIO_PCT /\ dLeft < CRITICAL_DENSITY
                THEN <<interpolatePoints(l, r, SHORTEN_AMOUNT_PCT, 100), r>>
                ELSE IF 100 * dRight < dLeft * SHORTENING_RATIO_PCT
                        /\ dRight < CRITICAL_DENSITY
                THEN <<l, interpolatePoints(r, l, SHORTEN_AMOUNT_PCT, 100)>>
                ELSE <<l, r>>))
        ELSE <<l, r>>

\* The k-th of the points that split p1 -> p2 in steps parts, moved by half
\* of shift2 along the crossing.
crossingMid(p1, p2, k, steps, shift2, currentLen) ==
    Pt(p1.x + DivRound((p2.x - p1.x) * k, steps)
            + DivRound((p2.x - p1.x) * shift2, 2 * currentLen),
       p1.y + DivRound((p2.y - p1.y) * k, steps)
            + DivRound((p2.y - p1.y) * shift2, 2 * currentLen))

\* The stitches of a crossing longer than maxStitchLengthMm.
splitCrossing(p1, p2, i0, maxLen, colorIdx, hexColor) ==
    Bind(dist(p1, p2), LAMBDA currentLen :
    Bind(IF maxLen > 0 THEN CeilDist(distSq(p1, p2), maxLen) ELSE 0, LAMBDA steps :
    Bind(maxLen - DivRound(currentLen, Max(steps, 1)) - SHIFT_MARGIN, LAMBDA maxSafeShift :
    Bind(IF maxSafeShift > SHIFT_MIN
         THEN shiftPattern2[(i0 % 3) + 1] * Min(maxSafeShift, SHIFT_MAX) ELSE 0,
         LAMBDA shift2 :
            <<StitchAt(p1, "stitch", colorIdx, hexColor, FALSE)>> \o
            Computed([k \in 1..(steps - 1) |->
                StitchAt(crossingMid(p1, p2, k, steps, shift2, currentLen), "stitch",
                         colorIdx, hexColor, FALSE)]) \o
            <<StitchAt(p2, "stitch", colorIdx, hexColor, FALSE)>>))))

satinCrossing(rails, i, cfg, colorIdx, hexColor) ==
    Bind(crossingEnds(rails, i), LAMBDA ends :
        IF DistGt(ends[1], ends[2], cfg.maxStitchLengthMm)
        THEN splitCrossing(ends[1], ends[2], i - 1,
                           IF cfg.maxStitchLengthMm # 0 THEN cfg.maxStitchLengthMm
                           ELSE SATIN_DEFAULT_MAX,
                           colorIdx, hexColor)
        ELSE <<StitchAt(ends[1], "stitch", colorIdx, hexColor, FALSE),
               StitchAt(ends[2], "stitch", colorIdx, hexColor, FALSE)>>)

generateSatinStitches(pathMm, cfg, colorIdx, hexColor) ==
    IF Len(pathMm) < 2 THEN <<>>
    ELSE Bind(resamplePath(pathMm, cfg.densityMm), LAMBDA resampled :
         Bind(Computed([i \in 1..Len(resampled) |->
                  satinRail(resampled, i,
                            (cfg.satinColumnWidthMm + cfg.pullCompensationMm) \div 2)]),
              LAMBDA rails :
                  Concat(LAMBDA i : satinCrossing(rails, i, cfg, colorIdx, hexColor),
                         1, Len(rails))))

(***************************************************************************)
(* IEEE 754 double arithmetic, for the places where the source's result    *)
(* depends on the rounding of its numbers.  A natural number of any size   *)
(* is the list of its digits in base 2^15, lowest first, without leading   *)
(* zeros; a double is sign * m * 2^e with m of exactly 53 bits (m empty    *)
(* for zero).  Every operation rounds to nearest, ties to even.            *)
(***************************************************************************)
Limb == 2 ^ 15



RECURSIVE BigNorm(_)
BigNorm(a) ==
    Bind(a, LAMBDA x :
        IF Len(x) > 0 /\ x[Len(x)] = 0 THEN BigNorm(SubSeq(x, 1, Len(x) - 1)) ELSE x)

RECURSIVE BigOfNat(_)
BigOfNat(n) == IF n = 0 THEN <<>> ELSE <<n % Limb>> \o BigOfNat(n \div Limb)

\* The value of a number below 2^31.
RECURSIVE BigToNat(_)
BigToNat(a) == Bind(a, LAMBDA x : IF Len(x) = 0 THEN 0 ELSE x[1] + Limb * BigToNat(Tail(x)))

LimbAt(a, i) == IF i <= Len(a) THEN a[i] ELSE 0

RECURSIVE BigAddFrom(_, _, _, _)
BigAddFrom(a, b, i, carry) ==
    IF i > Len(a) /\ i > Len(b) THEN (IF carry = 0 THEN <<>> ELSE <<carry>>)
    ELSE Bind(LimbAt(a, i) + LimbAt(b, i) + carry,
              LAMBDA s : <<s % Limb>> \o BigAddFrom(a, b, i + 1, s \div Limb))

BigAdd(a, b) == Bind(a, LAMBDA x : Bind(b, LAMBDA y : BigAddFrom(x, y, 1, 0)))

\* a - b for a >= b.
RECURSIVE BigSubFrom(_, _, _, _)
BigSubFrom(a, b, i, borrow) ==
    IF i > Len(a) THEN <<>>
    ELSE Bind(a[i] - LimbAt(b, i) - borrow,
              LAMBDA s : <<s % Limb>> \o BigSubFrom(a, b, i + 1, IF s < 0 THEN 1 ELSE 0))

BigSub(a, b) == Bind(a, LAMBDA x : Bind(b, LAMBDA y : BigNorm(BigSubFrom(x, y, 1, 0))))

RECURSIVE BigCmpAt(_, _, _)
BigCmpAt(a, b, i) ==
    IF i = 0 THEN 0
    ELSE IF a[i] # b[i] THEN (IF a[i] < b[i] THEN -1 ELSE 1)
    ELSE BigCmpAt(a, b, i - 1)

\* -1, 0 or 1 as a is below, equal to or above b.
BigCmp(a, b) ==
    Bind(a, LAMBDA x : Bind(b, LAMBDA y :
        IF Len(x) # Len(y) THEN (IF Len(x) < Len(y) THEN -1 ELSE 1)
        ELSE BigCmpAt(x, y, Len(x))))

\* a * k for k <= 2^15.
RECURSIVE BigMulSmallFrom(_, _, _, _)
BigMulSmallFrom(a, k, i, carry) ==
    IF i > Len(a) THEN (IF carry = 0 THEN <<>> ELSE <<carry>>)
    ELSE Bind(a[i] * k + carry,
              LAMBDA p : <<p % Limb>> \o BigMulSmallFrom(a, k, i + 1, p \div Limb))

BigMulSmall(a, k) == Bind(a, LAMBDA x : Bind(k, LAMBDA j : BigNorm(BigMulSmallFrom(x, j, 1, 0))))

BigShiftLimbs(a, n) == Bind(a, LAMBDA x : IF Len(x) = 0 THEN <<>> ELSE [i \in 1..n |-> 0] \o x)

RECURSIVE BigMulFrom(_, _, _)
BigMulFrom(a, b, i) ==
    IF i > Len(b) THEN <<>>
    ELSE BigAdd(BigShiftLimbs(BigMulSmall(a, b[i]), i - 1), BigMulFrom(a, b, i + 1))

BigMul(a, b) == Bind(a, LAMBDA x : Bind(b, LAMBDA y : BigMulFrom(x, y, 1)))

\* a * 2^n.
BigShl(a, n) == Bind(n, LAMBDA k : BigShiftLimbs(BigMulSmall(a, 2 ^ (k % 15)), k \div 15))

\* The quotient of a by k <= 2^15, from the digit i downwards.
RECURSIVE BigDivSmallFrom(_, _, _, _)
BigDivSmallFrom(a, k, i, rem) ==
    IF i = 0 THEN <<>>
    ELSE Bind(rem * Limb + a[i],
              LAMBDA cur : BigDivSmallFrom(a, k, i - 1, cur % k) \o <<cur \div k>>)

\* floor(a / 2^n).
BigShr(a, n) ==
    Bind(a, LAMBDA x : Bind(n, LAMBDA k :
        IF k \div 15 >= Len(x) THEN <<>>
        ELSE Bind(SubSeq(x, k \div 15 + 1, Len(x)),
                  LAMBDA high : BigNorm(BigDivSmallFrom(high, 2 ^ (k % 15), Len(high), 0)))))

BitLenSmall(n) == Bind(n, LAMBDA v : CHOOSE k \in 0..15 : 2 ^ k > v /\ (k = 0 \/ 2 ^ (k - 1) <= v))

BigBitLen(a) ==
    Bind(a, LAMBDA x : IF Len(x) = 0 THEN 0 ELSE 15 * (Len(x) - 1) + BitLenSmall(x[Len(x)]))

\* One step of the long division by b: the bit i of the quotient.
BigDivStep(b, s0) ==
    Bind(s0, LAMBDA s : Bind(BigShl(b, s.i), LAMBDA t :
        IF BigCmp(t, s.r) <= 0
        THEN [i |-> s.i - 1, r |-> BigSub(s.r, t), q |-> BigAdd(s.q, BigShl(<<1>>, s.i))]
        ELSE [i |-> s.i - 1, r |-> s.r, q |-> s.q]))

\* Quotient q and remainder r of a by b > 0.
BigDivMod(a, b) ==
    Bind(a, LAMBDA x : Bind(b, LAMBDA y :
        RunLoop(LAMBDA s : s.i < 0, LAMBDA s : BigDivStep(y, s),
                [i |-> BigBitLen(x) - BigBitLen(y), r |-> x, q |-> <<>>])))



DblZero == [s |-> 1, m |-> <<>>, e |-> 0]

\* sign * M * 2^e (and a little more, if sticky) as a double.
DblRound(sign, M0, e0, sticky0) ==
    Bind(M0, LAMBDA M : Bind(e0, LAMBDA e : Bind(sticky0, LAMBDA sticky :
    IF Len(M) = 0 THEN DblZero
    ELSE Bind(BigBitLen(M) - 53, LAMBDA d :
        IF d <= 0 THEN [s |-> sign, m |-> BigShl(M, -d), e |-> e + d]
        ELSE Bind(BigShr(M, d), LAMBDA q :
             Bind(BigCmp(BigSub(M, BigShl(q, d)), BigShl(<<1>>, d - 1)), LAMBDA c :
             Bind(IF c > 0 \/ (c = 0 /\ (sticky \/ q[1] % 2 = 1)) THEN BigAdd(q, <<1>>) ELSE q,
                  LAMBDA up :
                      IF BigBitLen(up) > 53
                      THEN [s |-> sign, m |-> BigShr(up, 1), e |-> e + d + 1]
                      ELSE [s |-> sign, m |-> up, e |-> e + d])))))))

DblOfInt(n) == DblRound(IF n < 0 THEN -1 ELSE 1, BigOfNat(IF n < 0 THEN -n ELSE n), 0, FALSE)

DblNeg(x) == [x EXCEPT !.s = -x.s]

DblIsZero(x) == Len(x.m) = 0

\* -1, 0 or 1 as |x| is below, equal to or above |y|, for x and y not zero.
DblCmpAbs(x0, y0) ==
    Bind(x0, LAMBDA x : Bind(y0, LAMBDA y :
    IF x.e # y.e THEN (IF x.e < y.e THEN -1 ELSE 1) ELSE BigCmp(x.m, y.m)))

DblCmp(x0, y0) ==
    Bind(x0, LAMBDA x : Bind(y0, LAMBDA y :
    IF DblIsZero(x) THEN (IF DblIsZero(y) THEN 0 ELSE -y.s)
    ELSE IF DblIsZero(y) THEN x.s
    ELSE IF x.s # y.s THEN x.s
    ELSE x.s * DblCmpAbs(x, y)))

DblGe(x, y) == DblCmp(x, y) >= 0

DblLt(x, y) == DblCmp(x, y) < 0

\* x + y; an operand more than 64 binary places below the other is lost.
DblAdd(x0, y0) ==
    Bind(x0, LAMBDA x : Bind(y0, LAMBDA y :
    IF DblIsZero(x) THEN y
    ELSE IF DblIsZero(y) THEN x
    ELSE IF x.e - y.e > 64 THEN x
    ELSE IF y.e - x.e > 64 THEN y
    ELSE Bind(IF x.e < y.e THEN x.e ELSE y.e, LAMBDA e :
         Bind(BigShl(x.m, x.e - e), LAMBDA mx :
         Bind(BigShl(y.m, y.e - e), LAMBDA my :
              IF x.s = y.s THEN DblRound(x.s, BigAdd(mx, my), e, FALSE)
              ELSE IF BigCmp(mx, my) >= 0 THEN DblRound(x.s, BigSub(mx, my), e, FALSE)
              ELSE DblRound(y.s, BigSub(my, mx), e, FALSE))))))

DblSub(x, y) == DblAdd(x, DblNeg(y))

DblMul(x0, y0) ==
    Bind(x0, LAMBDA x : Bind(y0, LAMBDA y :
    IF DblIsZero(x) \/ DblIsZero(y) THEN DblZero
    ELSE DblRound(x.s * y.s, BigMul(x.m, y.m), x.e + y.e, FALSE)))

\* x / y for y not zero.
DblDiv(x0, y0) ==
    Bind(x0, LAMBDA x : Bind(y0, LAMBDA y :
    IF DblIsZero(x) THEN DblZero
    ELSE Bind(BigDivMod(BigShl(x.m, 56), y.m), LAMBDA d :
              DblRound(x.s * y.s, d.q, x.e - y.e - 56, Len(d.r) > 0))))

\* The double a decimal constant with three places denotes: v / 1000.
DblOfMilli(v) == DblDiv(DblOfInt(v), DblOfInt(1000))

\* floor(|x| * k) for k <= 2^15, and whether |x| * k is that integer.
DblScaledFloor(x0, k) ==
    Bind(x0, LAMBDA x :
    IF DblIsZero(x) THEN [floor |-> 0, exact |-> TRUE]
    ELSE Bind(BigMulSmall(x.m, k), LAMBDA M :
        IF x.e >= 0 THEN [floor |-> BigToNat(BigShl(M, x.e)), exact |-> TRUE]
        ELSE Bind(BigShr(M, -x.e), LAMBDA q :
                  [floor |-> BigToNat(q), exact |-> BigCmp(BigShl(q, -x.e), M) = 0])))

\* Math.round(x): the nearest integer, a tie going upwards.
DblMathRound(x0) ==
    Bind(x0, LAMBDA x :
    Bind(DblScaledFloor(x, 2), LAMBDA t :
        IF x.s > 0 THEN (t.floor + 1) \div 2
        ELSE IF t.exact THEN -(t.floor \div 2)
        ELSE -((t.floor + 1) \div 2)))

\* x in units of 0.001, to the nearest unit.
DblToMilli(x0) == Bind(x0, LAMBDA x : x.s * ((DblScaledFloor(x, 2000).floor + 1) \div 2))

\* One step of the square root of n: the bit i of the root.
BigSqrtStep(n, s) ==
    Bind(BigAdd(s.r, BigShl(<<1>>, s.i)), LAMBDA t :
        [i |-> s.i - 1, r |-> IF BigCmp(BigMul(t, t), n) <= 0 THEN t ELSE s.r])

\* floor(sqrt(n)).
BigSqrt(n) ==
    RunLoop(LAMBDA s : s.i < 0, LAMBDA s : BigSqrtStep(n, s),
            [i |-> BigBitLen(n) \div 2, r |-> <<>>]).r

\* Math.sqrt(x) for x >= 0.
DblSqrt(x0) ==
    Bind(x0, LAMBDA x :
    IF DblIsZero(x) THEN DblZero
    ELSE Bind(IF x.e % 2 = 0 THEN 56 ELSE 57, LAMBDA k :
         Bind(BigShl(x.m, k), LAMBDA M :
         Bind(BigSqrt(M), LAMBDA r :
              DblRound(1, r, (x.e - k) \div 2, BigCmp(BigMul(r, r), M) # 0)))))

(***************************************************************************)
(* resamplePath in the source's arithmetic.  generateSatinStitches walks   *)
(* the spine in steps of densityMm, and whether the walk ends on the last  *)
(* vertex or just before it is decided by the rounding of the sums: a      *)
(* decimal such as 0.4 is not a double, and 25 steps of it need not make   *)
(* 10.  Points here have doubles for coordinates.                          *)
(***************************************************************************)
DblPt(p) == [x |-> DblOfMilli(p.x), y |-> DblOfMilli(p.y)]

\* The point of the 0.001 mm grid nearest to a point of doubles.
GridPt(p) == Pt(DblToMilli(p.x), DblToMilli(p.y))

\* Math.sqrt(Math.pow(p1.x - p2.x, 2) + Math.pow(p1.y - p2.y, 2)), with
\* Math.pow(v, 2) = v * v.
distIEEE(p1, p2) ==
    Bind(DblSub(p1.x, p2.x), LAMBDA dx :
    Bind(DblSub(p1.y, p2.y), LAMBDA dy :
         DblSqrt(DblAdd(DblMul(dx, dx), DblMul(dy, dy)))))

interpolatePointsIEEE(p1, p2, t) ==
    [x |-> DblAdd(p1.x, DblMul(DblSub(p2.x, p1.x), t)),
     y |-> DblAdd(p1.y, DblMul(DblSub(p2.y, p1.y), t))]

\* The points are taken on the exact walk: the last vertex is sampled
\* whenever the path's length is a multiple of the spacing.
resampleStepIEEE_Exact(path, spacing, s) ==
    Bind(distIEEE(s.prev, path[s.i]), LAMBDA d :
        IF DblToMilli(s.accumulatedDist) + DblToMilli(d) >= DblToMilli(spacing)
        THEN Bind(interpolatePointsIEEE(s.prev, path[s.i],
                                        DblDiv(DblSub(spacing, s.accumulatedDist), d)),
                  LAMBDA nextPoint :
                      [i |-> s.i, prev |-> DblPt(GridPt(nextPoint)), accumulatedDist |-> DblZero,
                       newPath |-> Append(s.newPath, nextPoint)])
        ELSE [i |-> s.i + 1, prev |-> path[s.i],
              accumulatedDist |-> DblAdd(s.accumulatedDist, d), newPath |-> s.newPath])

\* One turn of the loop over path[i]; a turn that emits a point keeps i
\* ("i--" and then "i++").
resampleStepIEEE(path, spacing, s) ==
    Bind(distIEEE(s.prev, path[s.i]), LAMBDA d :
        IF DblGe(DblAdd(s.accumulatedDist, d), spacing)
        THEN Bind(interpolatePointsIEEE(s.prev, path[s.i],
                                        DblDiv(DblSub(spacing, s.accumulatedDist), d)),
                  LAMBDA nextPoint :
                      [i |-> s.i, prev |-> nextPoint, accumulatedDist |-> DblZero,
                       newPath |-> Append(s.newPath, nextPoint)])
        ELSE [i |-> s.i + 1, prev |-> path[s.i],
              accumulatedDist |-> DblAdd(s.accumulatedDist, d), newPath |-> s.newPath])

\* resamplePath(path, spacing) of a path and a spacing on the grid, its
\* points brought back to the grid.
resamplePathIEEE(path, spacing) ==
    IF Len(path) < 2 THEN path
    ELSE Bind([i \in 1..Len(path) |-> DblPt(path[i])], LAMBDA dpath :
         Bind(DblOfMilli(spacing), LAMBDA dspacing :
         Bind(RunLoop(LAMBDA s : s.i > Len(dpath),
                      LAMBDA s : resampleStepIEEE(dpath, dspacing, s),
                      [i |-> 2, prev |-> dpath[1], accumulatedDist |-> DblZero,
                       newPath |-> <<dpath[1]>>]).newPath,
              LAMBDA newPath :
                  Append([i \in 1..Len(newPath) |-> GridPt(newPath[i])], Last(path)))))

\* generateSatinStitches with the spine resampled in the source's arithmetic.
generateSatinStitchesIEEE(pathMm, cfg, colorIdx, hexColor) ==
    IF Len(pathMm) < 2 THEN <<>>
    ELSE Bind(resamplePathIEEE(pathMm, cfg.densityMm), LAMBDA resampled :
         Bind(Computed([i \in 1..Len(resampled) |->
                  satinRail(resampled, i,
                            (cfg.satinColumnWidthMm + cfg.pullCompensationMm) \div 2)]),
              LAMBDA rails :
                  Concat(LAMBDA i : satinCrossing(rails, i, cfg, colorIdx, hexColor),
                         1, Len(rails))))


(***************************************************************************)
(* generateTatamiStitches.  Angles come from a table of cosines and sines  *)
(* in 1/One.  The row "noise" fract(sin(y * 123.45) * 10000) is a fixed    *)
(* function of y that the model cannot compute: it is read from a table of *)
(* fractions (in percent) indexed by the row and by a seed that stands for *)
(* the unknown digits.  The rows y = minY + k * densityMm are exact here;   *)
(* the source adds densityMm in floating point, which can leave one more   *)
(* row just below maxY.                                                    *)
(***************************************************************************)
TatamiAngles == {0, 45, 90}

CosSin(deg) ==
    CASE deg = 0 -> <<One, 0>>
      [] deg = 45 -> <<7071, 7071>>
      [] deg = 90 -> <<0, One>>

\* rotatePoint(p, angleRad) for cs = <<cos(angleRad), sin(angleRad)>>.
rotatePoint(p, cs) ==
    Pt(DivRound(p.x * cs[1] - p.y * cs[2], One), DivRound(p.x * cs[2] + p.y * cs[1], One))

NoiseLevels == <<0, 25, 50, 75, 99>>

NoiseSeeds == 0..1

noisePct(y, seed) == NoiseLevels[((Abs(y) \div 100 + seed) % Len(NoiseLevels)) + 1]

EDGE_EPS == 1

TATAMI_STITCH_LEN == 4000

TATAMI_MIN_SEGMENT == 500

TATAMI_JUMP_DIST == 2000

TATAMI_CONNECT_MIN == 100

NOISE_SPAN_PCT == 40

\* The rotated shape has the coordinates it was given: no rotation and no
\* pull compensation.
keepsCoordinates(cfg) == cfg.tatamiAngle = 0 /\ cfg.pullCompensationMm = 0

\* "Math.abs(y1 - y2) > 0.001".  A difference of 0.001 on the grid is above
\* or below 0.001 as the doubles fall, which is computed when the
\* coordinates are the given ones; it is taken as not above otherwise.
edgeRises(y1, y2, asGiven) ==
    IF Abs(y1 - y2) = EDGE_EPS /\ asGiven
    THEN DblLt(DblOfMilli(EDGE_EPS),
               [DblSub(DblOfMilli(y1), DblOfMilli(y2)) EXCEPT !.s = 1])
    ELSE Abs(y1 - y2) > EDGE_EPS

\* The edge from path[i] to its successor (the closing edge for i = Len(path)),
\* oriented upwards; nothing for a near-horizontal edge.
tatamiEdge(path, i, asGiven) ==
    LET a == path[i]
        b == path[(i % Len(path)) + 1]
    IN  IF edgeRises(a.y, b.y, asGiven)
        THEN IF a.y < b.y THEN << [p1 |-> a, p2 |-> b] >> ELSE << [p1 |-> b, p2 |-> a] >>
        ELSE <<>>

tatamiEdges(paths, asGiven) ==
    Concat(LAMBDA j : Concat(LAMBDA i : tatamiEdge(paths[j], i, asGiven), 1, Len(paths[j])),
           1, Len(paths))

\* The x at which the edge crosses the row y, if y1 <= y < y2.
edgeCrossing(edge, y) ==
    IF edge.p1.y <= y /\ edge.p2.y > y
    THEN << edge.p1.x + DivRound((y - edge.p1.y) * (edge.p2.x - edge.p1.x),
                                 edge.p2.y - edge.p1.y) >>
    ELSE <<>>

\* intersections, after "intersections.sort((a, b) => a - b)".
rowIntersections(edges, y) ==
    SortSeq(Concat(LAMBDA e : edgeCrossing(edges[e], y), 1, Len(edges)),
            LAMBDA a, b : a < b)

\* a % b of JavaScript for b > 0: the sign of the dividend.
JsRem(a, b) == IF a >= 0 THEN a % b ELSE -((-a) % b)

\* The x of the first brick of the row y.
firstBrick(xStart, y, seed) ==
    Bind(xStart + JsRem(TATAMI_STITCH_LEN
                        - ((Abs(RoundTenth(y)) % 3) * TATAMI_STITCH_LEN) \div 3
                        - (noisePct(y, seed) * NOISE_SPAN_PCT * TATAMI_STITCH_LEN)
                          \div (100 * 100),
                        TATAMI_STITCH_LEN),
         LAMBDA currX : IF currX <= xStart THEN currX + TATAMI_STITCH_LEN ELSE currX)

\* lineStitches of one segment of the row y, before it is reversed.
tatamiLine(xStart, xEnd, y, maxSatinLen, seed) ==
    IF xEnd - xStart <= maxSatinLen THEN <<Pt(xStart, y), Pt(xEnd, y)>>
    ELSE RunLoop(LAMBDA s : ~(s.currX < xEnd),
                 LAMBDA s : [currX |-> s.currX + TATAMI_STITCH_LEN,
                             lineStitches |-> Append(s.lineStitches, Pt(s.currX, y))],
                 [currX |-> firstBrick(xStart, y, seed),
                  lineStitches |-> <<Pt(xStart, y)>>]).lineStitches
         \o <<Pt(xEnd, y)>>

\* The record that leads from the last stitch to firstP, if any.
tatamiConnect(sts, firstP, colorIdx, hexColor) ==
    IF Len(sts) > 0
    THEN IF DistGt(Last(sts), firstP, TATAMI_JUMP_DIST)
         THEN <<StitchAt(firstP, "jump", colorIdx, hexColor, TRUE)>>
         ELSE IF DistGt(Last(sts), firstP, TATAMI_CONNECT_MIN)
         THEN <<StitchAt(firstP, "stitch", colorIdx, hexColor, FALSE)>>
         ELSE <<>>
    ELSE <<StitchAt(firstP, "jump", colorIdx, hexColor, TRUE)>>

\* The double y of the row k: minY and k additions of rowSpacing.
rowYIEEE(minY, k, rowSpacing) ==
    Bind(DblOfMilli(rowSpacing), LAMBDA step :
        RunLoop(LAMBDA s : s.k = 0,
                LAMBDA s : [k |-> s.k - 1, y |-> DblAdd(s.y, step)],
                [k |-> k, y |-> DblOfMilli(minY)]).y)

\* "isReverse = Math.round(y / rowSpacing) % 2 === 0" for the row y above
\* minY.  Where y / rowSpacing is half-way between two integers the rounding
\* of the doubles decides: the quotient of the accumulated y is taken in the
\* source's arithmetic when the rotated shape has the coordinates it was
\* given (no rotation, no pull compensation), and rounded half up otherwise.
rowIsReverse(y, minY, cfg) ==
    IF (2 * y) % cfg.densityMm = 0 /\ y % cfg.densityMm # 0
       /\ cfg.tatamiAngle = 0 /\ cfg.pullCompensationMm = 0
    THEN DblMathRound(DblDiv(rowYIEEE(minY, (y - minY) \div cfg.densityMm, cfg.densityMm),
                             DblOfMilli(cfg.densityMm))) % 2 = 0
    ELSE DivRound(y, cfg.densityMm) % 2 = 0

\* The stitches after the segment xStart .. xEnd of the row y.
tatamiSegment(sts, xStart, xEnd, y, isReverse, cfg, colorIdx, hexColor, seed) ==
    IF xEnd - xStart < TATAMI_MIN_SEGMENT THEN sts
    ELSE Bind(tatamiLine(xStart, xEnd, y,
                         IF cfg.maxStitchLengthMm # 0 THEN cfg.maxStitchLengthMm
                         ELSE SATIN_DEFAULT_MAX, seed),
              LAMBDA line :
         Bind(Computed([k \in 1..Len(line) |->
                  rotatePoint(IF isReverse THEN line[Len(line) + 1 - k] ELSE line[k],
                              CosSin(cfg.tatamiAngle))]),
              LAMBDA points :
                  sts \o tatamiConnect(sts, points[1], colorIdx, hexColor) \o
                  [k \in 1..(Len(points) - 1) |->
                      StitchAt(points[k + 1], "stitch", colorIdx, hexColor, FALSE)]))

\* The stitches after the row y: its intersections are taken in pairs.
tatamiRow(sts, edges, y, isReverse, cfg, colorIdx, hexColor, seed) ==
    Bind(rowIntersections(edges, y), LAMBDA xs :
        RunLoop(LAMBDA s : s.i + 1 > Len(xs),
                LAMBDA s : [i |-> s.i + 2,
                            stitches |-> tatamiSegment(s.stitches, xs[s.i], xs[s.i + 1], y,
                                                       isReverse, cfg, colorIdx,
                                                       hexColor, seed)],
                [i |-> 1, stitches |-> sts]).stitches)

\* Every shape path has a vertex: "last.y" of an empty path throws a TypeError.
tatamiThrows(shapePathsMm) == \E j \in 1..Len(shapePathsMm) : Len(shapePathsMm[j]) = 0

\* The sweep "for (y = minY + rowSpacing; y < maxY; y += rowSpacing)".
tatamiSweep(rotatedPaths, ys, cfg, colorIdx, hexColor, seed) ==
    Bind(tatamiEdges(rotatedPaths, keepsCoordinates(cfg)), LAMBDA edges :
    Bind(SetMax(ys), LAMBDA maxY :
    Bind(SetMin(ys), LAMBDA minY :
        RunLoop(LAMBDA s : ~(s.y < maxY),
                LAMBDA s : [y |-> s.y + cfg.densityMm,
                            stitches |-> tatamiRow(s.stitches, edges, s.y,
                                                   rowIsReverse(s.y, minY, cfg), cfg,
                                                   colorIdx, hexColor, seed)],
                [y |-> minY + cfg.densityMm, stitches |-> <<>>]).stitches)))

\* rotatedPaths: the shape paths after pull compensation, turned by
\* -tatamiAngle.
rotatedPathsOf(shapePathsMm, cfg) ==
    Computed([j \in 1..Len(shapePathsMm) |->
        Bind(offsetPolygon(shapePathsMm[j], cfg.pullCompensationMm),
             LAMBDA compensated :
                 Computed([i \in 1..Len(compensated) |->
                     rotatePoint(compensated[i],
                                 <<CosSin(cfg.tatamiAngle)[1],
                                   -CosSin(cfg.tatamiAngle)[2]>>)]))])

\* The y of every vertex of the rotated paths.
rotatedYs(rotatedPaths) ==
    UNION {{rotatedPaths[j][i].y : i \in 1..Len(rotatedPaths[j])} :
           j \in 1..Len(rotatedPaths)}

generateTatamiStitches(shapePathsMm, cfg, colorIdx, hexColor, seed) ==
    IF Len(shapePathsMm) = 0 THEN <<>>
    ELSE Bind(rotatedPathsOf(shapePathsMm, cfg), LAMBDA rotatedPaths :
              tatamiSweep(rotatedPaths, rotatedYs(rotatedPaths), cfg, colorIdx, hexColor,
                          seed))

(***************************************************************************)
(* generateUnderlay                                                        *)
(***************************************************************************)
UNDERLAY_RUN_WIDTH == 2000

UNDERLAY_SATIN_INSET == 400

UNDERLAY_SATIN_DENSITY == 2000

UNDERLAY_EDGE_INSET == 600

markStructure(sts) ==
    Bind(sts, LAMBDA s : Computed([k \in 1..Len(s) |-> [s[k] EXCEPT !.isStructure = TRUE]]))

\* The run along the inset polygon, closed by a stitch at its first point.
edgeWalk(insetPoly, cfg, colorIdx, hexColor) ==
    IF Len(insetPoly) > 2
    THEN Bind(generateRunningStitches(insetPoly, cfg, colorIdx, hexColor), LAMBDA run :
              IF Len(run) > 0 THEN Append(run, [run[1] EXCEPT !.type = "stitch"]) ELSE run)
    ELSE <<>>

generateUnderlay(pathMm, cfg, colorIdx, hexColor) ==
    IF ~cfg.enableUnderlay THEN <<>>
    ELSE IF cfg.stitchType = "satin"
    THEN IF cfg.satinColumnWidthMm < UNDERLAY_RUN_WIDTH
         THEN markStructure(generateRunningStitches(pathMm, cfg, colorIdx, hexColor))
         ELSE IF cfg.satinColumnWidthMm - 2 * UNDERLAY_SATIN_INSET > 0
         THEN markStructure(generateSatinStitches(pathMm,
                  [cfg EXCEPT !.satinColumnWidthMm = @ - 2 * UNDERLAY_SATIN_INSET,
                              !.densityMm = UNDERLAY_SATIN_DENSITY,
                              !.pullCompensationMm = 0],
                  colorIdx, hexColor))
         ELSE <<>>
    ELSE Bind(offsetPolygon(pathMm, -UNDERLAY_EDGE_INSET), LAMBDA insetPoly :
              markStructure(edgeWalk(insetPoly, cfg, colorIdx, hexColor)))

(***************************************************************************)
(* digitizeDesign.  dig.i is the index of the layer in work (0-based, as   *)
(* in the source), dig.p the index of its next path (1-based); dig.pc is   *)
(* "run" inside the loops, "done" after the return and "threw" after an    *)
(* exception.                                                              *)
(***************************************************************************)
mainStitches(path, cfg, i, color, seed) ==
    IF cfg.stitchType = "tatami" THEN generateTatamiStitches(<<path>>, cfg, i, color, seed)
    ELSE IF cfg.stitchType = "satin" THEN generateSatinStitches(path, cfg, i, color)
    ELSE generateRunningStitches(path, cfg, i, color)

\* "{...s, type, colorIndex: i, hexColor: layer.color, isStructure: true}".
structural(s, t, i, color) == StitchAt(s, t, i, color, TRUE)

\* layerStitches after the underlay of a path has been added.
withUnderlay(layerStitches, underlay, i, color) ==
    IF Len(underlay) > 0
    THEN Bind(addTieIn(underlay), LAMBDA tiedUnderlay :
              (IF Len(layerStitches) > 0
               THEN Append(layerStitches, structural(tiedUnderlay[1], "jump", i, color))
               ELSE layerStitches) \o tiedUnderlay)
    ELSE layerStitches

\* The records that lead from the layer's last record to the first main one.
travel(last, first, cfg, i, color) ==
    IF DistGt(last, first, cfg.trimJumpDistanceMm)
    THEN << structural(last, "trim", i, color), structural(first, "jump", i, color) >>
    ELSE << structural(first, "jump", i, color) >>

\* main after "if (underlay.length === 0) main = addTieIn(main)" and addTieOff.
tied(main, hasUnderlay) ==
    Bind(IF hasUnderlay THEN main ELSE addTieIn(main), LAMBDA m : addTieOff(m))

\* layerStitches after the main stitches of a path have been added.
withMain(layerStitches, main0, hasUnderlay, cfg, i, color) ==
    IF Len(main0) > 0
    THEN Bind(tied(main0, hasUnderlay), LAMBDA main :
              (IF Len(layerStitches) > 0
               THEN layerStitches \o travel(Last(layerStitches), main[1], cfg, i, color)
               ELSE layerStitches) \o main)
    ELSE layerStitches

\* One turn of "for (const path of layer.paths)".
pathStitches(layerStitches, path, cfg, i, color, seed) ==
    Bind(generateUnderlay(path, cfg, i, color), LAMBDA underlay :
    Bind(withUnderlay(layerStitches, underlay, i, color), LAMBDA afterUnderlay :
    Bind(mainStitches(path, cfg, i, color, seed), LAMBDA main :
         withMain(afterUnderlay, main, Len(underlay) > 0, cfg, i, color))))

\* The color_change keeps the color and index of the record it copies.
withLayer_KeepsLastColor(allStitches, layerStitches, i, color) ==
    IF Len(layerStitches) > 0
    THEN (IF Len(allStitches) > 0
          THEN allStitches \o << [Last(allStitches) EXCEPT !.type = "color_change"],
                                 structural(layerStitches[1], "jump", i, color) >>
          ELSE allStitches) \o layerStitches
    ELSE allStitches

\* allStitches after a layer has been closed.
withLayer(allStitches, layerStitches, i, color) ==
    IF Len(layerStitches) > 0
    THEN (IF Len(allStitches) > 0
          THEN allStitches \o << structural(Last(allStitches), "color_change", i, color),
                                 structural(layerStitches[1], "jump", i, color) >>
          ELSE allStitches) \o layerStitches
    ELSE allStitches

EndRecord_Missing(last) == last

\* "{...cleanedStitches[cleanedStitches.length - 1], type: 'end'}".
EndRecord(last) ==
    IF IsUndefined(last) THEN [type |-> "end"] ELSE [last EXCEPT !.type = "end"]

\* The returned list: the cleaned stitches and the end record.
finished(allStitches, cfg) ==
    Bind(removeSmallStitches(allStitches, cfg.minStitchLengthMm), LAMBDA cleanedStitches :
         IF Len(cleanedStitches) > 0
         THEN Append(cleanedStitches, EndRecord(Last(cleanedStitches)))
         ELSE cleanedStitches)

DigInit(seed) ==
    [pc |-> "run", i |-> 0, p |-> 1, layerStitches |-> <<>>, allStitches |-> <<>>,
     result |-> <<>>, seed |-> seed]

InLayer == dig.pc = "run" /\ dig.i < Len(layers)

ProcessPath ==
    /\ InLayer
    /\ dig.p <= Len(layers[dig.i + 1].paths)
    /\ ~(config.stitchType = "tatami" /\ tatamiThrows(<<layers[dig.i + 1].paths[dig.p]>>))
    /\ dig' = [dig EXCEPT !.p = @ + 1,
                          !.layerStitches = pathStitches(@, layers[dig.i + 1].paths[dig.p],
                                                         config, dig.i,
                                                         layers[dig.i + 1].color, dig.seed)]
    /\ UNCHANGED <<stitches, format, dst, exp, taj, layers, config>>

\* generateTatamiStitches reads "last.y" of an empty path.
PathThrows ==
    /\ InLayer
    /\ dig.p <= Len(layers[dig.i + 1].paths)
    /\ config.stitchType = "tatami"
    /\ tatamiThrows(<<layers[dig.i + 1].paths[dig.p]>>)
    /\ dig' = [dig EXCEPT !.pc = "threw"]
    /\ UNCHANGED <<stitches, format, dst, exp, taj, layers, config>>

FinishLayer ==
    /\ InLayer
    /\ dig.p > Len(layers[dig.i + 1].paths)
    /\ dig' = [dig EXCEPT !.i = @ + 1, !.p = 1, !.layerStitches = <<>>,
                          !.allStitches = withLayer(@, dig.layerStitches, dig.i,
                                                    layers[dig.i + 1].color)]
    /\ UNCHANGED <<stitches, format, dst, exp, taj, layers, config>>

Finalize ==
    /\ dig.pc = "run" /\ dig.i = Len(layers)
    /\ dig' = [dig EXCEPT !.pc = "done", !.result = finished(dig.allStitches, config)]
    /\ UNCHANGED <<stitches, format, dst, exp, taj, layers, config>>

(***************************************************************************)
(* The inputs of digitizeDesign: lists of at most MaxLayers layers drawn   *)
(* from LayerSet, and the configurations of ConfigSet.                     *)
(***************************************************************************)
MaxLayers == 2

Square(x0, y0, side) ==
    << Pt(x0, y0), Pt(x0 + side, y0), Pt(x0 + side, y0 + side), Pt(x0, y0 + side), Pt(x0, y0) >>

PathNear == Square(0, 0, 4000)

PathFar == Square(8000, 8000, 3000)

PathBeside == << Pt(4500, 0), Pt(6500, 0), Pt(6500, 1500) >>

\* An open strip lower than one tatami row.
PathStrip == << Pt(0, 6000), Pt(4000, 6000), Pt(4000, 6300), Pt(0, 6300) >>

PathPoint == << Pt(1000, 1000) >>

\* A segment of 0.02 mm.
PathTiny == << Pt(0, 0), Pt(20, 0) >>

LayerSet ==
    { [color |-> "#ff0000", paths |-> <<PathNear>>],
      [color |-> "#0000ff", paths |-> <<PathNear, PathFar>>],
      [color |-> "#00ff00", paths |-> <<PathBeside, PathStrip>>],
      [color |-> "#ff0000", paths |-> <<PathPoint>>],
      [color |-> "#000000", paths |-> <<>>] }

\* Layers that only some configurations are run on.
LayerNoVertex == [color |-> "#ffff00", paths |-> << <<>> >>]

LayerTiny == [color |-> "#ff00ff", paths |-> <<PathTiny>>]

BaseConfig ==
    [stitchType |-> "running", densityMm |-> 400, satinColumnWidthMm |-> 3000,
     pullCompensationMm |-> 200, enableUnderlay |-> TRUE, tatamiAngle |-> 0,
     maxStitchLengthMm |-> 7000, minStitchLengthMm |-> 300, trimJumpDistanceMm |-> 2000]

ConfigSet ==
    { [BaseConfig EXCEPT !.stitchType = t, !.enableUnderlay = u, !.trimJumpDistanceMm = j] :
        t \in {"running", "satin", "tatami"}, u \in BOOLEAN, j \in {2000, 30000} }
    \cup { [BaseConfig EXCEPT !.stitchType = "satin", !.satinColumnWidthMm = 1000],
           [BaseConfig EXCEPT !.stitchType = "tatami", !.tatamiAngle = 90,
                              !.maxStitchLengthMm = 2500],
           [BaseConfig EXCEPT !.stitchType = "running", !.minStitchLengthMm = 2000],
           [BaseConfig EXCEPT !.stitchType = "satin", !.minStitchLengthMm = 2000],
           [BaseConfig EXCEPT !.stitchType = "tatami", !.minStitchLengthMm = 2000,
                              !.pullCompensationMm = 0] }

\* A maximal stitch length of 0.005 mm, run on the tiny segment only.
FineConfig == [BaseConfig EXCEPT !.maxStitchLengthMm = 5, !.enableUnderlay = FALSE]

\* A maximal stitch length that is not positive.
ZeroMaxConfig == [BaseConfig EXCEPT !.maxStitchLengthMm = 0, !.enableUnderlay = FALSE]

\* The seed only matters to the tatami generator.
SeedsOf(cfg) == IF cfg.stitchType = "tatami" THEN NoiseSeeds ELSE {0}

DigInputs ==
    { <<ls, c>> : ls \in SeqsUpTo(LayerSet, MaxLayers), c \in ConfigSet }
    \cup { <<ls, c>> : ls \in {<<LayerNoVertex>>, << [color |-> "#ff0000", paths |-> <<PathNear>>], LayerNoVertex >>},
                       c \in ConfigSet }
    \cup { << <<LayerTiny>>, FineConfig >>,
           << << [color |-> "#ff0000", paths |-> <<PathNear>>] >>, ZeroMaxConfig >> }

Init ==
    /\ \E input \in DigInputs : layers = input[1] /\ config = input[2]
    /\ \E seed \in SeedsOf(config) : dig = DigInit(seed)
    /\ stitches = <<>>
    /\ format = "dst"
    /\ dst = DstInit
    /\ exp = ExpInit
    /\ taj = TajIdle

Next == ProcessPath \/ PathThrows \/ FinishLayer \/ Finalize

Spec == Init /\ [][Next]_vars

(***************************************************************************)
(* The returned list.                                                      *)
(***************************************************************************)
Returned == dig.pc = "done"

KindOf(r) == IF IsUndefined(r) THEN "undefined" ELSE r.type

\* layerStitches at the close of the layer of index i: the loop over its paths.
layerStitchesOf(layer, cfg, i, seed) ==
    RunLoop(LAMBDA s : s.p > Len(layer.paths),
            LAMBDA s : [p |-> s.p + 1,
                        layerStitches |-> pathStitches(s.layerStitches, layer.paths[s.p],
                                                       cfg, i, layer.color, seed)],
            [p |-> 1, layerStitches |-> <<>>]).layerStitches

\* The indexes of the layers with content: "layerStitches.length > 0".
ContentLayers ==
    {i \in 0..(Len(layers) - 1) :
        Len(layerStitchesOf(layers[i + 1], config, i, dig.seed)) > 0}

(***************************************************************************)
(* C1.  The returned list holds exactly one record of kind end, and that   *)
(* record is its last element.                                             *)
(***************************************************************************)
C1_OneEndLast ==
    Returned =>
        /\ Len(dig.result) > 0
        /\ \A k \in 1..Len(dig.result) :
               (KindOf(dig.result[k]) = "end") <=> (k = Len(dig.result))

C1_Witness ==
    /\ Returned
    /\ Len(layers) = 2
    /\ \E k \in 1..Len(dig.result) : KindOf(dig.result[k]) = "color_change"
    /\ KindOf(Last(dig.result)) = "end"

(***************************************************************************)
(* C2.  Every trim of the returned list is directly followed by a jump, a  *)
(* color_change or the end.                                                *)
(***************************************************************************)
C2_TrimFollowed ==
    Returned =>
        \A k \in 1..Len(dig.result) :
            KindOf(dig.result[k]) = "trim"
            => /\ k < Len(dig.result)
               /\ KindOf(dig.result[k + 1]) \in {"jump", "color_change", "end"}

Body == SubSeq(dig.result, 1, Len(dig.result) - 1)

SamePlace(a, b) == a.x = b.x /\ a.y = b.y

\* A new group begins at the index k of Body.
IsGroupStart(k) == k >= 2 /\ dig.result[k].colorIndex # dig.result[k - 1].colorIndex

GroupStarts == {k \in 2..Len(Body) : IsGroupStart(k)}

C10_Grouped(content) ==
    (Returned /\ ~IsUndefined(dig.result[1])) =>
        /\ \A k \in 2..(Len(dig.result) - 1) :
               dig.result[k - 1].colorIndex <= dig.result[k].colorIndex
        /\ {dig.result[k].colorIndex : k \in 1..(Len(dig.result) - 1)} = content
        /\ \A k \in 1..(Len(dig.result) - 1) :
               dig.result[k].hexColor = layers[dig.result[k].colorIndex + 1].color

C10_ColorChanges ==
    (Returned /\ ~IsUndefined(dig.result[1])) =>
        /\ \A k \in 1..(Len(dig.result) - 1) :
               (dig.result[k].type = "color_change") <=> IsGroupStart(k)
        /\ \A k \in GroupStarts :
               /\ k + 2 <= Len(dig.result) - 1
               /\ dig.result[k + 1].type = "jump"
               /\ dig.result[k + 2].type # "color_change"
               /\ SamePlace(dig.result[k + 1], dig.result[k + 2])

C10_ChangeAtPrevious ==
    (Returned /\ ~IsUndefined(dig.result[1])) =>
        \A k \in GroupStarts : SamePlace(dig.result[k], dig.result[k - 1])

\* The count, of a design that has a first group.
C10_Count(content) ==
    (Returned /\ content # {}) =>
        Cardinality({k \in 1..Len(dig.result) : KindOf(dig.result[k]) = "color_change"})
            = Cardinality(content) - 1

\* C10 as claimed.
C10_AsClaimed ==
    Returned =>
        Bind(ContentLayers, LAMBDA content :
             /\ C10_Grouped(content)
             /\ C10_ColorChanges
             /\ C10_ChangeAtPrevious
             /\ C10_Count(content))

ColorChangesOf(records) == SelectSeq(records, LAMBDA r : r.type = "color_change")

\* Each color_change is the one the composer inserted, at the position of the
\* record that ended the layers before it in the composed list.
C10_ChangeAtComposedEnd ==
    (Returned /\ ~IsUndefined(dig.result[1])) =>
        /\ ColorChangesOf(Body) = ColorChangesOf(dig.allStitches)
        /\ \A m \in 1..Len(dig.allStitches) :
               dig.allStitches[m].type = "color_change"
               => /\ m > 1
                  /\ SamePlace(dig.allStitches[m], dig.allStitches[m - 1])
                  /\ dig.allStitches[m - 1].colorIndex < dig.allStitches[m].colorIndex

C10_CountWithContent(content) ==
    Returned =>
        Cardinality({k \in 1..Len(dig.result) : KindOf(dig.result[k]) = "color_change"})
            = IF content = {} THEN 0 ELSE Cardinality(content) - 1

\* C10 as the code has it: the color_change is at the end of the composed
\* list, and there is none without a layer with content.
C10_Composed ==
    Returned =>
        Bind(ContentLayers, LAMBDA content :
             /\ C10_Grouped(content)
             /\ C10_ColorChanges
             /\ C10_ChangeAtComposedEnd
             /\ C10_CountWithContent(content))

\* The stitch that ended the first layer was dropped as a short stitch.
C10_Witness ==
    /\ Returned
    /\ Len(layers) = 2
    /\ \E k \in GroupStarts : ~SamePlace(dig.result[k], dig.result[k - 1])

(***************************************************************************)
(* C11.  The composer inserts a connection before the main stitches of a   *)
(* path only if the path is not the first one of its layer: trim then jump *)
(* when the layer's last record is farther than trimJumpDistanceMm from    *)
(* the first main record, a single jump otherwise.  Inside the first path  *)
(* of a layer it inserts no trim and no jump, with an underlay or without. *)
(***************************************************************************)
\* One turn of the loop over the paths as the claim describes it.
C11_PathStitches(layerStitches, path, cfg, i, color, seed, isFirst) ==
    Bind(generateUnderlay(path, cfg, i, color), LAMBDA underlay :
    Bind(withUnderlay(layerStitches, underlay, i, color), LAMBDA afterUnderlay :
    Bind(mainStitches(path, cfg, i, color, seed), LAMBDA main0 :
         IF Len(main0) > 0
         THEN Bind(tied(main0, Len(underlay) > 0), LAMBDA main :
                   (IF ~isFirst /\ Len(afterUnderlay) > 0
                    THEN afterUnderlay \o travel(Last(afterUnderlay), main[1], cfg, i, color)
                    ELSE afterUnderlay) \o main)
         ELSE afterUnderlay)))

C11_ConnectionOnlyAfterFirst ==
    [][ProcessPath =>
          dig'.layerStitches =
              C11_PathStitches(dig.layerStitches, layers[dig.i + 1].paths[dig.p], config,
                               dig.i, layers[dig.i + 1].color, dig.seed, dig.p = 1)]_vars

(***************************************************************************)
(* C12.  generateUnderlay returns an empty list when the stitch type is    *)
(* running, with enableUnderlay set or not, so that no path of a running   *)
(* design gets an underlay.                                                *)
(***************************************************************************)
C12_RunningNoUnderlay ==
    (InLayer /\ dig.p <= Len(layers[dig.i + 1].paths) /\ config.stitchType = "running") =>
        generateUnderlay(layers[dig.i + 1].paths[dig.p], config, dig.i,
                         layers[dig.i + 1].color) = <<>>

(***************************************************************************)
(* The generators on their own.  A call is the name of the function, its   *)
(* path, its configuration, the record list it cleans and the seed of its  *)
(* row noise; dig.pc is "call" before the function has run and "done"      *)
(* after it has returned dig.result.                                       *)
(***************************************************************************)
GenColor == "#ff0000"

Call(op, path, cfg, sts, seed) ==
    [op |-> op, path |-> path, cfg |-> cfg, sts |-> sts, seed |-> seed]

\* The scenario of the running generator: 10 mm in steps of 2.5 mm.
PathS1 == << Pt(0, 0), Pt(10000, 0) >>

\* A segment of 5 mm that is not parallel to an axis.
PathSlanted == << Pt(0, 0), Pt(3000, 4000) >>

\* A path whose second vertex repeats the first within 0.01 mm.
PathRepeated == << Pt(0, 0), Pt(5, 0), Pt(10000, 0), Pt(10000, 0), Pt(10000, 1200) >>

RunningPaths ==
    { <<>>, PathPoint, PathTiny, PathS1, PathSlanted, PathRepeated, PathNear, PathFar,
      PathBeside, PathStrip }

RunningLengths == { -1000, 0, 5, 300, 1000, 2500, 7000 }

RunningCalls ==
    { Call("generateRunningStitches", path, [BaseConfig EXCEPT !.maxStitchLengthMm = len],
           <<>>, 0) :
        path \in RunningPaths, len \in RunningLengths }

\* The records removeSmallStitches is called on: stitches at 0, 0.005, 0.05,
\* 0.2 and 1 mm, and a jump.
CleanupRecords ==
    { StitchAt(Pt(0, 0), "stitch", 0, GenColor, FALSE),
      StitchAt(Pt(5, 0), "stitch", 0, GenColor, FALSE),
      StitchAt(Pt(50, 0), "stitch", 0, GenColor, FALSE),
      StitchAt(Pt(200, 0), "stitch", 0, GenColor, FALSE),
      StitchAt(Pt(1000, 0), "stitch", 0, GenColor, FALSE),
      StitchAt(Pt(50, 0), "jump", 0, GenColor, TRUE) }

CleanupCalls ==
    { Call("removeSmallStitches", <<>>, [BaseConfig EXCEPT !.minStitchLengthMm = len], sts, 0) :
        sts \in SeqsUpTo(CleanupRecords, MaxStitches), len \in {300, 2000} }

\* Spines with a turn of 143 degrees, of 172 degrees and of 180 degrees at a
\* vertex that the resampling at 0.4 mm keeps.
PathSharp == << Pt(0, 0), Pt(4000, 0), Pt(800, 2400) >>

PathNeedle == << Pt(0, 0), Pt(4000, 0), Pt(40, 560) >>

PathHairpin == << Pt(0, 0), Pt(4000, 0), Pt(1000, 0) >>

SatinPaths ==
    { <<>>, PathPoint, PathTiny, PathS1, PathSlanted, PathNear, PathBeside, PathStrip,
      PathSharp, PathNeedle, PathHairpin }

SatinCalls ==
    { Call("generateSatinStitches", path,
           [BaseConfig EXCEPT !.stitchType = "satin", !.satinColumnWidthMm = w,
                              !.pullCompensationMm = pull, !.maxStitchLengthMm = len],
           <<>>, 0) :
        path \in SatinPaths, w \in {-1000, 1000, 2000, 3000}, pull \in {0, 200},
        len \in {2500, 7000} }

\* Calls whose spine is resampled in the source's arithmetic.
SatinDoubleCalls ==
    { Call("generateSatinStitchesIEEE", path,
           [BaseConfig EXCEPT !.stitchType = "satin", !.satinColumnWidthMm = 2000,
                              !.pullCompensationMm = 0, !.densityMm = density,
                              !.maxStitchLengthMm = len],
           <<>>, 0) :
        path \in {PathS1, PathSlanted, PathSharp}, density \in {400, 1000},
        len \in {2500, 7000} }

\* The closed square of side 10 mm about the origin.
PathSquare10 ==
    << Pt(-5000, -5000), Pt(5000, -5000), Pt(5000, 5000), Pt(-5000, 5000), Pt(-5000, -5000) >>

\* A notch whose tip is a local minimum on the row y = 0.8.
PathNotch ==
    << Pt(0, 0), Pt(8000, 0), Pt(8000, 2000), Pt(4000, 800), Pt(0, 2000), Pt(0, 0) >>

\* A triangle whose right corner lies on the row y = 0.8.
PathKite == << Pt(0, 0), Pt(4000, 800), Pt(0, 1600), Pt(0, 0) >>

\* A box whose top edge rises by 0.001 mm, from the row y = 2.0.
PathSlantTop ==
    << Pt(0, 0), Pt(10000, 0), Pt(10000, 2001), Pt(0, 2000), Pt(0, 0) >>

TatamiCalls ==
    { Call("generateTatamiStitches", path,
           [BaseConfig EXCEPT !.stitchType = "tatami", !.tatamiAngle = angle,
                              !.densityMm = 400, !.pullCompensationMm = 0,
                              !.maxStitchLengthMm = len],
           <<>>, seed) :
        path \in {PathSquare10, PathNear, PathStrip, PathNotch, PathKite, PathSlantTop},
        angle \in {0, 90},
        len \in {2500, 7000}, seed \in NoiseSeeds }

GenCalls ==
    RunningCalls \cup CleanupCalls \cup SatinCalls \cup SatinDoubleCalls \cup TatamiCalls

GenInit ==
    /\ \E c \in GenCalls :
          /\ layers = << [color |-> GenColor, paths |-> <<c.path>>] >>
          /\ config = c.cfg
          /\ stitches = c.sts
          /\ dig = [pc |-> "call", op |-> c.op, result |-> <<>>, seed |-> c.seed]
    /\ format = "dst"
    /\ dst = DstInit
    /\ exp = ExpInit
    /\ taj = TajIdle

GenPath == layers[1].paths[1]

Calling(op) == dig.pc = "call" /\ dig.op = op

Returns(result) ==
    /\ dig' = [dig EXCEPT !.pc = "done", !.result = result]
    /\ UNCHANGED <<stitches, format, dst, exp, taj, layers, config>>

CallRunning ==
    /\ Calling("generateRunningStitches")
    /\ Returns(generateRunningStitches(GenPath, config, 0, GenColor))

CallRemoveSmall ==
    /\ Calling("removeSmallStitches")
    /\ Returns(removeSmallStitches(stitches, config.minStitchLengthMm))

CallSatin ==
    /\ Calling("generateSatinStitches")
    /\ Returns(generateSatinStitches(GenPath, config, 0, GenColor))

CallSatinIEEE ==
    /\ Calling("generateSatinStitchesIEEE")
    /\ Returns(generateSatinStitchesIEEE(GenPath, config, 0, GenColor))

CallTatami ==
    /\ Calling("generateTatamiStitches")
    /\ Returns(generateTatamiStitches(<<GenPath>>, config, 0, GenColor, dig.seed))

GenNext == CallRunning \/ CallRemoveSmall \/ CallSatin \/ CallSatinIEEE \/ CallTatami

SpecGenerators == GenInit /\ [][GenNext]_vars

Returned_(op) == dig.pc = "done" /\ dig.op = op

(***************************************************************************)
(* C13.  Two consecutive stitches of generateRunningStitches are at most   *)
(* L apart, L being maxStitchLengthMm, or 2.5 mm when that is not          *)
(* positive: a segment longer than L is cut into ceil(d / L) equal parts,  *)
(* a segment of at most L gives its end point only.  The path (0,0),       *)
(* (10,0) with L = 2.5 gives (0,0), (2.5,0), (5,0), (7.5,0), (10,0).       *)
(***************************************************************************)
C13_L == IF config.maxStitchLengthMm > 0 THEN config.maxStitchLengthMm ELSE 2500

\* The least n with n * L >= d: ceil(d / L), for d between two points.
C13_Parts(p, q) ==
    Bind(SqrtFloor(distSq(p, q)) \div C13_L, LAMBDA low :
         CHOOSE n \in low..(low + 1) :
             /\ n * n * C13_L * C13_L >= distSq(p, q)
             /\ (n - 1) * (n - 1) * C13_L * C13_L < distSq(p, q))

\* The stitches every segment of the cleaned path gives, as the claim has them.
C13_Segment(p, q) ==
    IF DistGt(p, q, C13_L)
    THEN Bind(C13_Parts(p, q), LAMBDA n :
              Computed([k \in 1..n |-> interpolatePoints(p, q, k, n)]))
    ELSE <<q>>

C13_Points(clean) ==
    IF Len(clean) < 2 THEN <<>>
    ELSE <<clean[1]>> \o Concat(LAMBDA i : C13_Segment(clean[i - 1], clean[i]), 2, Len(clean))

C13_RunningWithinL ==
    Returned_("generateRunningStitches") =>
        /\ \A k \in 1..(Len(dig.result) - 1) :
               ~DistGt(dig.result[k], dig.result[k + 1], C13_L)
        /\ [k \in 1..Len(dig.result) |-> Pt(dig.result[k].x, dig.result[k].y)]
               = (IF Len(GenPath) < 2 THEN <<>> ELSE C13_Points(cleanPathOf(GenPath)))
        /\ \A k \in 1..Len(dig.result) : dig.result[k].type = "stitch"
        /\ (GenPath = PathS1 /\ config.maxStitchLengthMm = 2500) =>
               [k \in 1..Len(dig.result) |-> <<dig.result[k].x, dig.result[k].y>>]
                   = << <<0, 0>>, <<2500, 0>>, <<5000, 0>>, <<7500, 0>>, <<10000, 0>> >>

\* A segment of 10 mm cut at the default length.
C13_Witness ==
    /\ Returned_("generateRunningStitches")
    /\ config.maxStitchLengthMm <= 0
    /\ GenPath = PathS1
    /\ Len(dig.result) = 5

(***************************************************************************)
(* C14.  removeSmallStitches keeps the first record and every record that  *)
(* is not a stitch, and drops a stitch exactly when its distance to the    *)
(* previous kept record, of any kind, is above 0.01 mm and below           *)
(* minStitchLengthMm; the output is a subsequence of the input.  The       *)
(* stitches (0,0), (0.05,0), (1,0) with 0.3 mm give (0,0), (1,0).          *)
(***************************************************************************)
\* The elements of sts at the indexes of K, in order.
C14_Pick(sts, K) ==
    [j \in 1..Cardinality(K) |-> sts[CHOOSE k \in K : Cardinality({m \in K : m <= k}) = j]]

\* K is the set of kept indexes the rule of the claim gives.
C14_KeptBy(sts, minLen, K) ==
    /\ Len(sts) > 0 => 1 \in K
    /\ \A i \in 2..Len(sts) :
           i \notin K <=>
               /\ sts[i].type = "stitch"
               /\ LET prev == sts[SetMax({k \in K : k < i})]
                  IN  distSq(prev, sts[i]) > 10 * 10 /\ distSq(prev, sts[i]) < minLen * minLen

C14_KeepRule ==
    Returned_("removeSmallStitches") =>
        /\ \E K \in SUBSET (1..Len(stitches)) :
               /\ C14_KeptBy(stitches, config.minStitchLengthMm, K)
               /\ dig.result = C14_Pick(stitches, K)
        /\ (config.minStitchLengthMm = 300
              /\ [k \in 1..Len(stitches) |-> <<stitches[k].type, stitches[k].x, stitches[k].y>>]
                     = << <<"stitch", 0, 0>>, <<"stitch", 50, 0>>, <<"stitch", 1000, 0>> >>)
           => [k \in 1..Len(dig.result) |-> <<dig.result[k].x, dig.result[k].y>>]
                  = << <<0, 0>>, <<1000, 0>> >>

(***************************************************************************)
(* C15.  With densityMm <= 0, with satinColumnWidthMm <= 0 while satin is  *)
(* selected, or with maxStitchLengthMm <= 0, digitizeDesign refuses to     *)
(* run: it produces no stitches and does not return a stitch list (it      *)
(* does not fall back on a default value).                                 *)
(***************************************************************************)
InvalidConfig(cfg) ==
    \/ cfg.densityMm <= 0
    \/ cfg.stitchType = "satin" /\ cfg.satinColumnWidthMm <= 0
    \/ cfg.maxStitchLengthMm <= 0

C15_InvalidRefused ==
    InvalidConfig(config) =>
        /\ ~Returned
        /\ dig.layerStitches = <<>>
        /\ dig.allStitches = <<>>

(***************************************************************************)
(* C16.  When no stitch outside the structure is produced (no layer, or    *)
(* degenerate paths only), digitizeDesign does not return a stitch list    *)
(* but an EmptyDesign outcome; a returned list never holds a record        *)
(* without coordinates.                                                    *)
(***************************************************************************)
HasCoordinates(r) == {"x", "y"} \subseteq DOMAIN r

IsFaceRecord(r) ==
    /\ ~IsUndefined(r)
    /\ r.type = "stitch"
    /\ "isStructure" \in DOMAIN r
    /\ ~r.isStructure

C16_EmptyDesignSurfaced ==
    Returned =>
        /\ \E k \in 1..Len(dig.result) : IsFaceRecord(dig.result[k])
        /\ \A k \in 1..Len(dig.result) : HasCoordinates(dig.result[k])

(***************************************************************************)
(* C17.  createDstFile writes no header when the rounded target of a       *)
(* record lies outside -32767..32767 units of 0.1 mm; it surfaces a        *)
(* CoordinateOverflow error.  In every file it writes, the fields +X, -X,  *)
(* +Y and -Y have exactly five digits.                                     *)
(***************************************************************************)
C17_OverflowSurfaced ==
    (format = "dst" /\ dst.pc = "done") =>
        /\ \A v \in TargetsX \cup TargetsY : Abs(v) <= 32767
        /\ \A f \in {"pX", "nX", "pY", "nY"} : Len(dst.header[f]) = 5

(***************************************************************************)
(* C18.  Every pair (left_i, right_i) of rail points generateSatinStitches *)
(* builds is at most 3 * h apart, h being satinColumnWidthMm / 2 +         *)
(* pullCompensationMm / 2, whatever the angle between the tangents.        *)
(***************************************************************************)
HalfWidth == (config.satinColumnWidthMm + config.pullCompensationMm) \div 2

\* The spine points the rails are built at, and the rails.
SatinSpine == IF Len(GenPath) < 2 THEN <<>> ELSE resamplePath(GenPath, config.densityMm)

SatinRails ==
    Bind(SatinSpine, LAMBDA resampled :
         Computed([i \in 1..Len(resampled) |-> satinRail(resampled, i, HalfWidth)]))

\* The rail pairs are no farther apart than reach, up to 0.004 mm.
RailsWithin(rails, reach) ==
    \A i \in 1..Len(rails) : ~DistGt(rails[i].left, rails[i].right, reach + 4)

C18_RailsWithin3h ==
    Returned_("generateSatinStitches") => RailsWithin(SatinRails, 3 * HalfWidth)

\* The miter length, from the spine to a rail, is what is cut at 3 * h: the
\* rail points lie on either side of their spine point, at most 3 * h from
\* it.  With h < 0 the cut "miterLength > MITER_LIMIT" acts on the short
\* miters instead, and the length h / dot stays below 10 * |h|.
RailReach == IF HalfWidth >= 0 THEN 3 * HalfWidth ELSE 10 * Abs(HalfWidth)

C18_RailsWithin6h ==
    Returned_("generateSatinStitches") =>
        Bind(SatinRails, LAMBDA rails :
            /\ RailsWithin(rails, 2 * RailReach)
            /\ \A i \in 1..Len(rails) :
                   /\ ~DistGt(rails[i].left, SatinSpine[i], RailReach + 2)
                   /\ ~DistGt(rails[i].right, SatinSpine[i], RailReach + 2))

\* A corner where the miter length is cut: the pair is (nearly) 6 * h apart.
C18_Witness ==
    /\ Returned_("generateSatinStitches")
    /\ GenPath = PathSharp
    /\ HalfWidth > 0
    /\ \E i \in 1..Len(SatinRails) :
           DistGt(SatinRails[i].left, SatinRails[i].right, 6 * HalfWidth - 4)


(***************************************************************************)
(* C19.  For the spine (0,0), (10,0) with a column 2 mm wide, a density of *)
(* 0.4 mm, no pull compensation and a maximum stitch length of at least    *)
(* 2 mm, generateSatinStitches emits exactly 26 pairs of penetrations, one *)
(* of each pair at y = +1 and the other at y = -1, the pairs at x = 0,     *)
(* 0.4, 0.8, ... 10: the last spine point is not doubled and no pair       *)
(* collapses onto y = 0.  The 25 steps of 0.4 end just short of 10 in the  *)
(* source's doubles, so the walk does not sample the last vertex itself.   *)
(***************************************************************************)
C19_Scenario ==
    /\ Returned_("generateSatinStitchesIEEE")
    /\ GenPath = PathS1
    /\ config.satinColumnWidthMm = 2000
    /\ config.densityMm = 400
    /\ config.pullCompensationMm = 0
    /\ config.maxStitchLengthMm >= 2000

C19_TwentySixPairs ==
    C19_Scenario =>
        /\ Len(dig.result) = 2 * 26
        /\ \A k \in 1..26 :
              /\ dig.result[2 * k - 1].x = 400 * (k - 1)
              /\ dig.result[2 * k].x = 400 * (k - 1)
              /\ {dig.result[2 * k - 1].y, dig.result[2 * k].y} = {1000, -1000}
        /\ \A j \in 1..Len(dig.result) : dig.result[j].type = "stitch"

C19_Witness == C19_Scenario /\ Len(dig.result) > 0 /\ dig.result[1].x = 0


(***************************************************************************)
(* C20.  For the closed square of side 10 mm about the origin, with angle  *)
(* 0, density 0.4 mm, maximum stitch length 7 mm and no pull compensation, *)
(* generateTatamiStitches makes 24 rows at y = -4.6, -4.2, ... 4.6; every  *)
(* row has exactly three penetrations, x = -5 and x = 5 and one between    *)
(* them, whatever the brick offset of the row; and each row is traversed   *)
(* in the direction opposite to that of the row before it.                 *)
(***************************************************************************)
C20_Scenario ==
    /\ Returned_("generateTatamiStitches")
    /\ GenPath = PathSquare10
    /\ config.tatamiAngle = 0
    /\ config.densityMm = 400
    /\ config.maxStitchLengthMm = 7000
    /\ config.pullCompensationMm = 0

C20_RowYs == { 400 * k - 5000 : k \in 1..24 }

\* The penetrations of the row y, in the order of the result.
C20_Row(y) == SelectSeq(dig.result, LAMBDA r : r.y = y)

\* The row runs from x = -5 to x = 5.
C20_Forward(row) == row[1].x < row[Len(row)].x

C20_RowsAre24 == { dig.result[j].y : j \in 1..Len(dig.result) } = C20_RowYs

C20_ThreePerRow ==
    \A y \in C20_RowYs :
        Bind(C20_Row(y), LAMBDA row :
            /\ Len(row) = 3
            /\ {row[1].x, row[3].x} = {-5000, 5000}
            /\ row[2].x > -5000 /\ row[2].x < 5000)

C20_RowsAlternate ==
    \A y \in C20_RowYs \ {4600} :
        C20_Forward(C20_Row(y)) # C20_Forward(C20_Row(y + 400))

C20_SquareFill ==
    C20_Scenario => C20_RowsAre24 /\ C20_ThreePerRow /\ C20_RowsAlternate


(***************************************************************************)
(* simplifyPath (Ramer-Douglas-Peucker).  The distance of a point to the   *)
(* chord is kept as the fraction num / den of its square, so that the      *)
(* comparisons "d > dmax" and "dmax > epsilon" are exact.                  *)
(***************************************************************************)
\* The square of pointLineDist(p, a, b).
pointLineDistSq(p, a, b) ==
    Bind(distSq(a, b), LAMBDA l2 :
        IF l2 = 0 THEN [num |-> distSq(p, a), den |-> 1]
        ELSE Bind((p.x - a.x) * (b.x - a.x) + (p.y - a.y) * (b.y - a.y), LAMBDA t :
             IF t <= 0 THEN [num |-> distSq(p, a), den |-> 1]
             ELSE IF t >= l2 THEN [num |-> distSq(p, b), den |-> 1]
             ELSE Bind((p.x - a.x) * (b.y - a.y) - (p.y - a.y) * (b.x - a.x), LAMBDA cross :
                       [num |-> cross * cross, den |-> l2])))

\* d1 > d2 for the squares d1 and d2 of two distances.
FracGt(d1, d2) == d1.num * d2.den > d2.num * d1.den

\* The loop "for (i = 1; i < end; i++)": the first point farthest from the
\* chord, and its distance.
RECURSIVE simplifyFarthest(_, _, _)
simplifyFarthest(points, i, best) ==
    IF i >= Len(points) THEN best
    ELSE Bind(pointLineDistSq(points[i], points[1], points[Len(points)]), LAMBDA d :
              simplifyFarthest(points, i + 1,
                               IF FracGt(d, best.dmax) THEN [index |-> i, dmax |-> d]
                               ELSE best))

\* The two halves are joined with the point they share repeated.
simplifyJoin_KeepsBoth(recResults1, recResults2) == recResults1 \o recResults2

\* "recResults1.slice(0, recResults1.length - 1).concat(recResults2)".
simplifyJoin(recResults1, recResults2) ==
    SubSeq(recResults1, 1, Len(recResults1) - 1) \o recResults2

RECURSIVE simplifyPath(_, _)
simplifyPath(points, epsilon) ==
    IF Len(points) < 3 THEN points
    ELSE Bind(simplifyFarthest(points, 2, [index |-> 1, dmax |-> [num |-> 0, den |-> 1]]),
              LAMBDA far :
        IF FracGt(far.dmax, [num |-> epsilon * epsilon, den |-> 1])
        THEN Bind(simplifyPath(SubSeq(points, 1, far.index), epsilon), LAMBDA recResults1 :
             Bind(simplifyPath(SubSeq(points, far.index, Len(points)), epsilon),
                  LAMBDA recResults2 : simplifyJoin(recResults1, recResults2)))
        ELSE <<points[1], points[Len(points)]>>)

(***************************************************************************)
(* reorderPolygonToStartAt; bestIdx counts from 0 as in the source.        *)
(***************************************************************************)
\* The closing vertex is rotated with the others.
rotateUnique_KeepsClosing(path, bestIdx) ==
    SubSeq(path, bestIdx + 1, Len(path)) \o SubSeq(path, 1, bestIdx)

\* "[...part1, ...part2]" of uniquePoints = path.slice(0, path.length - 1).
rotateUnique(path, bestIdx) ==
    Bind(SubSeq(path, 1, Len(path) - 1), LAMBDA uniquePoints :
         SubSeq(uniquePoints, bestIdx + 1, Len(uniquePoints))
         \o SubSeq(uniquePoints, 1, Min(bestIdx, Len(uniquePoints))))

\* "rotated.push(rotated[0])": of an empty list that pushes undefined.
reorderPolygonToStartAt(path, bestIdx) ==
    IF bestIdx = 0 THEN path
    ELSE Bind(rotateUnique(path, bestIdx), LAMBDA rotated :
              Append(rotated, IF Len(rotated) > 0 THEN rotated[1] ELSE Undefined))

(***************************************************************************)
(* optimizePathSequence.  bestPathIdx and bestVertexIdx count from 0, and  *)
(* are -1 while no vertex has been seen.                                   *)
(***************************************************************************)
\* A vertex as far as the best one replaces it.
isNearer_OrEqual(dSq, minDistanceSq) == JsLt(dSq, minDistanceSq) \/ minDistanceSq = Fin(dSq)

\* "dSq < minDistanceSq".
isNearer(dSq, minDistanceSq) == JsLt(dSq, minDistanceSq)

\* The inner loop over the vertices v of remaining[i + 1] but the last.
RECURSIVE nearestInPath(_, _, _, _, _)
nearestInPath(path, i, v, currentPos, best) ==
    IF v >= Len(path) - 1 THEN best
    ELSE Bind(distSq(currentPos, path[v + 1]), LAMBDA dSq :
              nearestInPath(path, i, v + 1, currentPos,
                            IF isNearer(dSq, best.minDistanceSq)
                            THEN [bestPathIdx |-> i, bestVertexIdx |-> v,
                                  minDistanceSq |-> Fin(dSq)]
                            ELSE best))

\* The outer loop over remaining.
RECURSIVE nearestJoin(_, _, _, _)
nearestJoin(remaining, i, currentPos, best) ==
    IF i >= Len(remaining) THEN best
    ELSE nearestJoin(remaining, i + 1, currentPos,
                     nearestInPath(remaining[i + 1], i, 0, currentPos, best))

\* remaining.splice(idx, 1).
splice(remaining, idx) ==
    SubSeq(remaining, 1, idx) \o SubSeq(remaining, idx + 2, Len(remaining))

\* One turn of "while (remaining.length > 0)".
optimizeStep(s) ==
    Bind(nearestJoin(s.remaining, 0, s.currentPos,
                     [bestPathIdx |-> -1, bestVertexIdx |-> -1, minDistanceSq |-> PosInf]),
         LAMBDA best :
        IF best.bestPathIdx # -1
        THEN Bind(reorderPolygonToStartAt(s.remaining[best.bestPathIdx + 1],
                                          best.bestVertexIdx),
                  LAMBDA reorderedPath :
                      [optimized |-> Append(s.optimized, reorderedPath),
                       currentPos |-> Last(reorderedPath),
                       remaining |-> splice(s.remaining, best.bestPathIdx)])
        ELSE [optimized |-> Append(s.optimized, s.remaining[1]),
              currentPos |-> s.currentPos,
              remaining |-> Tail(s.remaining)])

optimizePathSequence(paths) ==
    RunLoop(LAMBDA s : Len(s.remaining) = 0, LAMBDA s : optimizeStep(s),
            [optimized |-> <<>>, currentPos |-> Pt(0, 0), remaining |-> paths]).optimized

(***************************************************************************)
(* Calls of the geometry functions on their own: an operation, the paths   *)
(* and the number it is given, and what it returns.  A second application  *)
(* of simplifyPath to its own result is recorded in "again".               *)
(***************************************************************************)
MaxPoints == 5

GeoCall(op, paths, arg) == [op |-> op, paths |-> paths, arg |-> arg]

SimplifyPoints == { Pt(0, 0), Pt(4, 0), Pt(8, 0), Pt(4, 3), Pt(6, -1) }

SimplifyCalls ==
    { GeoCall("simplifyPath", <<path>>, epsilon) :
        path \in SeqsUpTo(SimplifyPoints, MaxPoints), epsilon \in {0, 1, 3} }

ReorderPoints == { Pt(0, 0), Pt(4, 0), Pt(4, 3), Pt(0, 3) }

\* Every path with a vertex and every index of one of its unique vertices.
ReorderCalls ==
    UNION { { GeoCall("reorderPolygonToStartAt", <<path>>, k) :
                k \in 0..Max(Len(path) - 2, 0) } :
            path \in SeqsUpTo(ReorderPoints, MaxPoints) \ {<<>>} }

MaxPolygons == 3

\* Closed polygons, among them two that share their nearest vertex, one with
\* two vertices at the same distance, a single point and a doubled point;
\* and one contour that is not closed.
PolygonPool ==
    { << Pt(1, 1), Pt(3, 1), Pt(3, 3), Pt(1, 3), Pt(1, 1) >>,
      << Pt(6, 4), Pt(6, 0), Pt(1, 1), Pt(6, 4) >>,
      << Pt(2, 2), Pt(2, 0), Pt(0, 2), Pt(2, 2) >>,
      << Pt(5, 6), Pt(3, 4), Pt(7, 5), Pt(5, 6) >>,
      << Pt(4, 4) >>,
      << Pt(0, 1), Pt(0, 1) >>,
      << Pt(3, 5), Pt(0, 5), Pt(0, 4) >> }

OptimizeCalls ==
    { GeoCall("optimizePathSequence", paths, 0) : paths \in SeqsUpTo(PolygonPool, MaxPolygons) }

\* Closed contours in 0.001 mm (a square, a flat rectangle, a triangle, an L
\* with a reflex corner, a square walked clockwise) and two short paths.
OffsetPolygons ==
    { << Pt(0, 0), Pt(10000, 0), Pt(10000, 10000), Pt(0, 10000), Pt(0, 0) >>,
      << Pt(-4000, -1500), Pt(4000, -1500), Pt(4000, 1500), Pt(-4000, 1500), Pt(-4000, -1500) >>,
      << Pt(0, 0), Pt(6000, 0), Pt(0, 8000), Pt(0, 0) >>,
      << Pt(0, 0), Pt(8000, 0), Pt(8000, 4000), Pt(4000, 4000), Pt(4000, 8000), Pt(0, 8000),
         Pt(0, 0) >>,
      << Pt(0, 0), Pt(0, 10000), Pt(10000, 10000), Pt(10000, 0), Pt(0, 0) >>,
      << Pt(0, 0), Pt(5000, 0) >>,
      << >> }

\* Pull compensation outward, none, and the underlay inset of 0.6 mm.
OffsetDistances == {-600, 0, 300, 1000}

OffsetCalls ==
    { GeoCall("offsetPolygon", <<path>>, d) : path \in OffsetPolygons, d \in OffsetDistances }

GeoCalls == SimplifyCalls \cup ReorderCalls \cup OptimizeCalls \cup OffsetCalls

GeoInit ==
    /\ \E c \in GeoCalls :
          /\ layers = << [color |-> GenColor, paths |-> c.paths] >>
          /\ dig = [pc |-> "call", op |-> c.op, arg |-> c.arg, result |-> <<>>,
                    again |-> <<>>]
    /\ config = BaseConfig
    /\ stitches = <<>>
    /\ format = "dst"
    /\ dst = DstInit
    /\ exp = ExpInit
    /\ taj = TajIdle

GeoPaths == layers[1].paths

GeoReturns(result) ==
    /\ dig' = [dig EXCEPT !.pc = "done", !.result = result]
    /\ UNCHANGED <<stitches, format, dst, exp, taj, layers, config>>

CallSimplify ==
    /\ Calling("simplifyPath")
    /\ GeoReturns(simplifyPath(GeoPaths[1], dig.arg))

CallSimplifyAgain ==
    /\ Returned_("simplifyPath")
    /\ dig' = [dig EXCEPT !.pc = "again", !.again = simplifyPath(dig.result, dig.arg)]
    /\ UNCHANGED <<stitches, format, dst, exp, taj, layers, config>>

CallReorder ==
    /\ Calling("reorderPolygonToStartAt")
    /\ GeoReturns(reorderPolygonToStartAt(GeoPaths[1], dig.arg))

CallOptimize ==
    /\ Calling("optimizePathSequence")
    /\ GeoReturns(optimizePathSequence(GeoPaths))

CallOffset ==
    /\ Calling("offsetPolygon")
    /\ GeoReturns(offsetPolygon(GeoPaths[1], dig.arg))

GeoNext == CallSimplify \/ CallSimplifyAgain \/ CallReorder \/ CallOptimize \/ CallOffset

SpecGeometry == GeoInit /\ [][GeoNext]_vars

(***************************************************************************)
(* C21.  simplifyPath(simplifyPath(P, eps), eps) is simplifyPath(P, eps),  *)
(* point for point, for every polyline P and every eps >= 0; the result is *)
(* a subsequence of P that keeps the first and the last point of P; and a  *)
(* P of at most 2 points is returned unchanged.                            *)
(***************************************************************************)
\* r is p with some of its elements left out.
RECURSIVE IsSubsequence(_, _)
IsSubsequence(r, p) ==
    IF Len(r) = 0 THEN TRUE
    ELSE IF Len(p) = 0 THEN FALSE
    ELSE IF r[1] = p[1] THEN IsSubsequence(Tail(r), Tail(p))
    ELSE IsSubsequence(r, Tail(p))

C21_Simplified == dig.op = "simplifyPath" /\ dig.pc \in {"done", "again"}

C21_Idempotent ==
    /\ (dig.op = "simplifyPath" /\ dig.pc = "again") => dig.again = dig.result
    /\ C21_Simplified =>
          /\ IsSubsequence(dig.result, GeoPaths[1])
          /\ Len(GeoPaths[1]) > 0 =>
                /\ dig.result[1] = GeoPaths[1][1]
                /\ Last(dig.result) = Last(GeoPaths[1])
          /\ Len(GeoPaths[1]) <= 2 => dig.result = GeoPaths[1]

\* A path of five points is cut down and the cut path is simplified again.
C21_Witness ==
    /\ dig.op = "simplifyPath" /\ dig.pc = "again"
    /\ Len(GeoPaths[1]) = 5
    /\ Len(dig.result) \in 3..4


(***************************************************************************)
(* C23.  For a closed polygon of n points (the first equal to the last)    *)
(* and an index k in 0..n-2, reorderPolygonToStartAt returns n points; the *)
(* first and the last are the input's point k, and the n-1 unique vertices *)
(* are those of the input in the same cyclic order, starting at k.  With   *)
(* k = 0 the input is returned unchanged.                                  *)
(***************************************************************************)
IsClosed(path) == Len(path) > 0 /\ path[1] = Last(path)

C23_Scenario == Returned_("reorderPolygonToStartAt") /\ IsClosed(GeoPaths[1])

C23_RotationKeepsCycle ==
    C23_Scenario =>
        LET path == GeoPaths[1]
            n == Len(path)
            k == dig.arg
        IN  /\ Len(dig.result) = n
            /\ dig.result[1] = path[k + 1]
            /\ dig.result[n] = path[k + 1]
            /\ \A j \in 0..(n - 2) : dig.result[j + 1] = path[((k + j) % (n - 1)) + 1]
            /\ k = 0 => dig.result = path

\* A closed square is rotated to start at its third vertex.
C23_Witness ==
    /\ C23_Scenario
    /\ Len(GeoPaths[1]) = 5
    /\ dig.arg = 2
    /\ Cardinality({GeoPaths[1][j] : j \in 1..4}) = 4
    /\ dig.result[1] = GeoPaths[1][3]


(***************************************************************************)
(* C22.  optimizePathSequence returns a permutation of its input polygons, *)
(* each exactly once and possibly rotated.  The head starts at (0,0) and   *)
(* is then the last point of the polygon just emitted; the polygon emitted *)
(* next is the remaining one that owns a non-closing vertex at the least   *)
(* squared distance from the head, ties going to the earliest polygon and  *)
(* then to the earliest vertex, and it is emitted starting at that vertex. *)
(***************************************************************************)
\* The closed polygon path started at its vertex v (counted from 1).
C22_StartedAt(path, v) ==
    [j \in 1..Len(path) |-> path[((v + j - 2) % (Len(path) - 1)) + 1]]

\* The non-closing vertices of the remaining polygons: <<polygon, vertex>>.
C22_Candidates(remaining) ==
    UNION { { <<i, v>> : v \in 1..(Len(remaining[i]) - 1) } : i \in 1..Len(remaining) }

\* c comes before d: it is nearer to the head, or as near and earlier.
C22_Before(remaining, head, c, d) ==
    LET dc == distSq(head, remaining[c[1]][c[2]])
        dd == distSq(head, remaining[d[1]][d[2]])
    IN  dc < dd \/ (dc = dd /\ (c[1] < d[1] \/ (c[1] = d[1] /\ c[2] <= d[2])))

\* The polygons in the order the claim gives; those without a non-closing
\* vertex come last, in their order.
RECURSIVE C22_Emitted(_, _)
C22_Emitted(remaining, head) ==
    IF Len(remaining) = 0 THEN <<>>
    ELSE Bind(C22_Candidates(remaining), LAMBDA cands :
        IF cands = {} THEN remaining
        ELSE Bind(CHOOSE c \in cands : \A d \in cands : C22_Before(remaining, head, c, d),
                  LAMBDA c :
                      <<C22_StartedAt(remaining[c[1]], c[2])>> \o
                      C22_Emitted(splice(remaining, c[1] - 1), remaining[c[1]][c[2]])))

\* result is path started at one of its vertices.
C22_IsRotation(result, path) ==
    \/ result = path
    \/ \E v \in 1..(Len(path) - 1) : result = C22_StartedAt(path, v)

C22_Scenario ==
    /\ Returned_("optimizePathSequence")
    /\ \A i \in 1..Len(GeoPaths) : IsClosed(GeoPaths[i])

C24_Scenario == Returned_("generateTatamiStitches") /\ IsClosed(GenPath)

C24_Rotated == rotatedPathsOf(<<GenPath>>, config)

C24_Edges == tatamiEdges(C24_Rotated, keepsCoordinates(config))

\* The rows "for (y = minY + rowSpacing; y < maxY; y += rowSpacing)".
C24_Rows ==
    LET ys == rotatedYs(C24_Rotated)
    IN  { y \in SetMin(ys)..SetMax(ys) :
            /\ y > SetMin(ys) /\ y < SetMax(ys)
            /\ (y - SetMin(ys)) % config.densityMm = 0 }

\* The point p lies on one of the segments that the sorted intersections xs
\* make, two by two.
C24_OnSegment(p, xs) ==
    \E i \in 1..(Len(xs) \div 2) : xs[2 * i - 1] <= p.x /\ p.x <= xs[2 * i]

C24_EvenIntersections ==
    C24_Scenario =>
        Bind(C24_Edges, LAMBDA edges :
            /\ \A y \in C24_Rows : Len(rowIntersections(edges, y)) % 2 = 0
            /\ \A j \in 1..Len(dig.result) :
                  Bind(rotatePoint(Pt(dig.result[j].x, dig.result[j].y),
                                   <<CosSin(config.tatamiAngle)[1],
                                     -CosSin(config.tatamiAngle)[2]>>),
                       LAMBDA p : C24_OnSegment(p, rowIntersections(edges, p.y))))


(***************************************************************************)
(* C25.  In every createDstFile output the last body record is the         *)
(* terminator 0x00 0x00 0xC0 (bits 7 and 6 of byte 2, nothing else), and   *)
(* no record before it has the same three bytes: a color_change at the     *)
(* current position is told apart from the terminator.                     *)
(***************************************************************************)
DstTerminator == <<0, 0, 192>>

C25_TerminatorUnique ==
    (format = "dst" /\ dst.pc = "done") =>
        /\ Last(dst.bodyParts) = DstTerminator
        /\ \A k \in 1..(Len(dst.bodyParts) - 1) : dst.bodyParts[k] # DstTerminator


(***************************************************************************)
(* C26.  createExpFile never truncates its output: the write offset never  *)
(* exceeds the preallocated 8*n + 1024 bytes, so the returned array holds  *)
(* every byte of every record (12 per trim, 4 per part of a long jump) and *)
(* ends with the end record's 80 01 00 00.                                 *)
(***************************************************************************)
LastBytes(bytes, n) == SubSeq(bytes, Len(bytes) - n + 1, Len(bytes))

C26_NeverTruncates ==
    format = "exp" =>
        /\ exp.offset <= ExpCapacity(stitches)
        /\ exp.pc = "done" =>
               /\ exp.result = ExpBytesOf(exp.calls)
               /\ (stitches # <<>> /\ Last(stitches).type = "end")
                      => (Len(exp.result) >= 4 /\ LastBytes(exp.result, 4) = <<128, 1, 0, 0>>)


(***************************************************************************)
(* C27.  For a closed polygon (first point equal to last, at least 3       *)
(* distinct vertices) and an offset d # 0, offsetPolygon returns a polygon *)
(* with the same number of points that is still closed, each point         *)
(* displaced by d*m along the averaged normal of its two incident edges    *)
(* with m <= 2; a polygon of fewer than 3 points is returned unchanged.    *)
(***************************************************************************)
C27_Scenario == dig.op = "offsetPolygon" /\ dig.pc = "done"

C27_Covered(path, d) ==
    IsClosed(path) /\ Cardinality({path[i] : i \in 1..Len(path)}) >= 3 /\ d # 0

\* The neighbours of point i along the contour: the first and the closing
\* point are one vertex, between the last edge and the first.
C27_Prev(path, i) == IF i = 1 THEN path[Len(path) - 1] ELSE path[i - 1]

C27_Next(path, i) == IF i = Len(path) THEN path[2] ELSE path[i + 1]

C27_Displaced(path, i, d) ==
    offsetAlong(path[i], normalize(subPoints(path[i], C27_Prev(path, i))),
                normalize(subPoints(C27_Next(path, i), path[i])), d)

\* |r - p| <= 2 |d|, to the rounding of a coordinate.
C27_WithinMiter(r, p, d) == ~DistGt(r, p, OFFSET_MITER_MAX * Abs(d) + 2)

C27_OffsetKeepsClosure ==
    C27_Scenario =>
        LET path == GeoPaths[1]
            d == dig.arg
            r == dig.result
        IN  /\ Len(path) < 3 => r = path
            /\ C27_Covered(path, d) =>
                   /\ Len(r) = Len(path)
                   /\ IsClosed(r)
                   /\ \A i \in 1..Len(path) :
                          /\ r[i] = C27_Displaced(path, i, d)
                          /\ C27_WithinMiter(r[i], path[i], d)


(***************************************************************************)
(* The loops of the pipeline, one turn at a time, on the variables their   *)
(* exit tests read: the row sweep of generateTatamiStitches and the loop   *)
(* of resamplePath in the source's double arithmetic, the nearest-join     *)
(* loop of optimizePathSequence, and the two encoders.  What a turn of the *)
(* sweep or of resamplePath appends to its output is not read by the exit  *)
(* test and is left out of dig.s.                                          *)
(***************************************************************************)
\* Longest stitch list handed to an encoder here.
MaxLoopStitches == 2

LoopCall(op, arg, s) == [pc |-> "loop", op |-> op, arg |-> arg, s |-> s]

\* 2^54 mm: a finite coordinate whose neighbours among the doubles are 4 apart.
FarCoordinate == DblMul(DblOfInt(2 ^ 27), DblOfInt(2 ^ 27))

\* "let y = minY + rowSpacing"
SweepCall(minY, maxY, rowSpacing) ==
    LoopCall("tatamiSweep", [minY |-> minY, maxY |-> maxY, rowSpacing |-> rowSpacing],
             [y |-> DblAdd(minY, rowSpacing)])

SweepCalls ==
    { SweepCall(DblOfMilli(minY), DblOfMilli(minY + height), DblOfMilli(densityMm)) :
          minY \in {-5000, 0, 1250}, height \in {2000, 10000}, densityMm \in {380, 400, 2000} }
    \cup { SweepCall(FarCoordinate, DblAdd(FarCoordinate, DblOfInt(1024)), DblOfMilli(400)) }

\* "const newPath = [path[0]]; let prev = path[0]; let accumulatedDist = 0; i = 1"
ResampleCall(path, spacing) ==
    LoopCall("resamplePath", [path |-> path, spacing |-> spacing],
             [i |-> 2, prev |-> path[1], accumulatedDist |-> DblZero])

ResamplePaths ==
    { << Pt(0, 0), Pt(10000, 0) >>,
      << Pt(0, 0), Pt(3000, 4000), Pt(3000, 4100), Pt(-2000, 4100) >>,
      << Pt(1000, 1000), Pt(1000, 1000) >> }

ResampleCalls ==
    { ResampleCall([i \in 1..Len(path) |-> DblPt(path[i])], DblOfMilli(densityMm)) :
          path \in ResamplePaths, densityMm \in {400, 2000} }
    \cup { ResampleCall(<< [x |-> FarCoordinate, y |-> DblZero],
                           [x |-> DblAdd(FarCoordinate, DblOfInt(1024)), y |-> DblZero] >>,
                        DblOfMilli(400)) }

JoinCalls ==
    { LoopCall("optimizePathSequence", paths,
               [optimized |-> <<>>, currentPos |-> Pt(0, 0), remaining |-> paths]) :
          paths \in SeqsUpTo(PolygonPool, MaxPolygons - 1) }

LoopInit ==
    /\ \/ /\ dig \in SweepCalls \cup ResampleCalls \cup JoinCalls
          /\ stitches = <<>>
          /\ format = "none"
       \/ /\ dig = LoopCall("encode", <<>>, <<>>)
          /\ stitches \in SeqsUpTo(EncStitches, MaxLoopStitches)
          /\ format \in {"dst", "exp"}
    /\ layers = <<>>
    /\ config = <<>>
    /\ dst = DstInit
    /\ exp = ExpInit
    /\ taj = TajIdle

InLoop(op) == dig.pc = "loop" /\ dig.op = op

LoopTurn(s) ==
    /\ dig' = [dig EXCEPT !.s = s]
    /\ UNCHANGED <<stitches, format, dst, exp, taj, layers, config>>

LoopExit ==
    /\ dig' = [dig EXCEPT !.pc = "done"]
    /\ UNCHANGED <<stitches, format, dst, exp, taj, layers, config>>

\* "for (...; y < maxY; y += rowSpacing)"
SweepTurn ==
    /\ InLoop("tatamiSweep")
    /\ DblLt(dig.s.y, dig.arg.maxY)
    /\ LoopTurn([y |-> DblAdd(dig.s.y, dig.arg.rowSpacing)])

SweepExit ==
    /\ InLoop("tatamiSweep")
    /\ ~DblLt(dig.s.y, dig.arg.maxY)
    /\ LoopExit

\* "for (let i = 1; i < path.length; i++)", a turn that emits a point
\* staying on its segment.
ResampleTurn ==
    /\ InLoop("resamplePath")
    /\ dig.s.i <= Len(dig.arg.path)
    /\ LET t == resampleStepIEEE(dig.arg.path, dig.arg.spacing,
                                 [i |-> dig.s.i, prev |-> dig.s.prev,
                                  accumulatedDist |-> dig.s.accumulatedDist,
                                  newPath |-> <<>>])
       IN  LoopTurn([i |-> t.i, prev |-> t.prev, accumulatedDist |-> t.accumulatedDist])

ResampleExit ==
    /\ InLoop("resamplePath")
    /\ dig.s.i > Len(dig.arg.path)
    /\ LoopExit

\* "while (remaining.length > 0)"
JoinTurn ==
    /\ InLoop("optimizePathSequence")
    /\ Len(dig.s.remaining) > 0
    /\ LoopTurn(optimizeStep(dig.s))

JoinExit ==
    /\ InLoop("optimizePathSequence")
    /\ Len(dig.s.remaining) = 0
    /\ LoopExit

LoopNext ==
    \/ SweepTurn \/ SweepExit \/ ResampleTurn \/ ResampleExit \/ JoinTurn \/ JoinExit
    \/ DstSkipEnd \/ DstTarget \/ DstSplit \/ DstFinal \/ DstFinish
    \/ ExpSpecial \/ ExpMove \/ ExpSplit \/ ExpMoveDone \/ ExpReturn

\* The code is synchronous and runs on one thread: a loop that can take a
\* turn takes it.
SpecLoops == LoopInit /\ [][LoopNext]_vars /\ WF_vars(LoopNext)

\* The call has returned.
LoopReturned ==
    \/ dig.pc = "done"
    \/ format = "dst" /\ dst.pc = "done"
    \/ format = "exp" /\ exp.pc = "done"

(***************************************************************************)
(* C28.  For every finite layer list with finite coordinates and every     *)
(* config with density_mm > 0 digitizeDesign terminates, and createDstFile *)
(* and createExpFile terminate on its output: the resample loop, the       *)
(* tatami row sweep, the nearest-join loop and the encoders' split loops   *)
(* each make strict progress, so every one of them returns.                *)
(***************************************************************************)
C28_LoopsTerminate == <>LoopReturned


(***************************************************************************)
(* digitizeDesign as a function of its arguments: the list Finalize        *)
(* returns after ProcessPath and FinishLayer have run over every layer,    *)
(* and the inputs on which PathThrows ends the call.                       *)
(***************************************************************************)
digitizeThrows(ls, cfg) ==
    /\ cfg.stitchType = "tatami"
    /\ \E i \in 1..Len(ls) : \E p \in 1..Len(ls[i].paths) : tatamiThrows(<<ls[i].paths[p]>>)

digitizeDesign(ls, cfg, seed) ==
    finished(RunLoop(LAMBDA s : s.i >= Len(ls),
                     LAMBDA s : [i |-> s.i + 1,
                                 allStitches |->
                                     withLayer(s.allStitches,
                                               layerStitchesOf(ls[s.i + 1], cfg, s.i, seed),
                                               s.i, ls[s.i + 1].color)],
                     [i |-> 0, allStitches |-> <<>>]).allStitches,
             cfg)

(***************************************************************************)
(* The App component (src/App.tsx).  Its React state is held in the        *)
(* module's variables: stitches, layers (vectorLayers), format             *)
(* (exportFormat), config (the ProcessingConfig built from the parameter   *)
(* states) and, in dig, state, the two images (present or not) and the     *)
(* pending timers, each with the values its callback closed over.  A       *)
(* handler runs with the values of the render it was created in, which is  *)
(* the state before the event; what it sets is visible to the next event.  *)
(* The awaits of handleAnalyze and handleVectorize resolve while the app   *)
(* is still in ANALYZING and VECTORIZING; a continuation that runs after a *)
(* reset is not followed here.                                             *)
(* dig.computedFrom (the layers the stitches were computed from) and       *)
(* dig.download (the last download: the button clicked and the encoder     *)
(* called) record what happened.                                           *)
(***************************************************************************)
\* The config handleDigitize builds from the parameter states.
AppConfig(stitchType, trimJump) ==
    [BaseConfig EXCEPT !.stitchType = stitchType, !.trimJumpDistanceMm = trimJump]

\* What prepareVectorLayers may return.
AppLayerSets ==
    { << [color |-> "#ff0000", paths |-> <<PathBeside>>] >>,
      << LayerNoVertex >> }

\* The values a handleDigitize closes over.
Closure(ls, cfg) == [layers |-> ls, config |-> cfg]

TrimJumps == {2000, 30000}

\* digitizeDesign on every pair of arguments a callback can hold, computed
\* once.
digitizeResults ==
    [c \in {Closure(ls, AppConfig("tatami", j)) : ls \in AppLayerSets, j \in TrimJumps} |->
        [seed \in SeedsOf(c.config) |->
            IF digitizeThrows(c.layers, c.config) THEN <<>>
            ELSE digitizeDesign(c.layers, c.config, seed)]]

AppInit ==
    /\ dig = [state |-> "IDLE", originalImage |-> FALSE, processedImage |-> FALSE,
              timers |-> {}, debounce |-> {},
              computedFrom |-> <<>>, download |-> <<>>]
    /\ layers = <<>>
    /\ stitches = <<>>
    /\ config = AppConfig("tatami", 2000)
    /\ format = "exp"
    /\ dst = DstInit
    /\ exp = ExpInit
    /\ taj = TajIdle

\* reader.onload of handleFileUpload; the input is rendered while there is
\* no original image.
Upload ==
    /\ ~dig.originalImage
    /\ dig' = [dig EXCEPT !.originalImage = TRUE, !.processedImage = FALSE,
                          !.state = "IDLE", !.computedFrom = <<>>]
    /\ layers' = <<>>
    /\ stitches' = <<>>
    /\ UNCHANGED <<format, dst, exp, taj, config>>

\* handleAnalyze up to its await.
AnalyzeStart ==
    /\ dig.state \in {"IDLE", "REVIEW_BITMAP"}
    /\ dig.originalImage
    /\ dig' = [dig EXCEPT !.state = "ANALYZING"]
    /\ UNCHANGED <<stitches, format, dst, exp, taj, layers, config>>

\* simplifyImageWithAI resolves or rejects.
AnalyzeDone ==
    /\ dig.state = "ANALYZING"
    /\ \E ok \in BOOLEAN :
          dig' = IF ok
                 THEN [dig EXCEPT !.processedImage = TRUE, !.state = "REVIEW_BITMAP"]
                 ELSE [dig EXCEPT !.state = "ERROR"]
    /\ UNCHANGED <<stitches, format, dst, exp, taj, layers, config>>

\* handleVectorize up to its await.
VectorizeStart ==
    /\ dig.state = "REVIEW_BITMAP"
    /\ dig.processedImage
    /\ dig' = [dig EXCEPT !.state = "VECTORIZING"]
    /\ UNCHANGED <<stitches, format, dst, exp, taj, layers, config>>

\* prepareVectorLayers resolves or rejects.
VectorizeDone ==
    /\ dig.state = "VECTORIZING"
    /\ \/ /\ \E ls \in AppLayerSets : layers' = ls
          /\ dig' = [dig EXCEPT !.state = "REVIEW_VECTORS"]
       \/ /\ layers' = layers
          /\ dig' = [dig EXCEPT !.state = "ERROR"]
    /\ UNCHANGED <<stitches, format, dst, exp, taj, config>>

\* "Voltar": setState(REVIEW_BITMAP).
BackToBitmap ==
    /\ dig.state \in {"VECTORIZING", "REVIEW_VECTORS"}
    /\ dig' = [dig EXCEPT !.state = "REVIEW_BITMAP"]
    /\ UNCHANGED <<stitches, format, dst, exp, taj, layers, config>>

\* handleDigitize of the render with the values c, on the record d.
handleDigitize(d, c) ==
    IF Len(c.layers) = 0 THEN d
    ELSE [d EXCEPT !.state = "DIGITIZING", !.timers = @ \cup {c}]

\* "Digitalizar (Bordar)".
ClickDigitize ==
    /\ dig.state \in {"VECTORIZING", "REVIEW_VECTORS"}
    /\ dig' = handleDigitize(dig, Closure(layers, config))
    /\ UNCHANGED <<stitches, format, dst, exp, taj, layers, config>>

\* The callback of "setTimeout(..., 50)": nothing catches what
\* digitizeDesign throws in it.
DigitizeTimer ==
    /\ \E c \in dig.timers :
          IF digitizeThrows(c.layers, c.config)
          THEN /\ dig' = [dig EXCEPT !.timers = @ \ {c}]
               /\ stitches' = stitches
          ELSE /\ \E seed \in SeedsOf(c.config) :
                      stitches' = digitizeResults[c][seed]
               /\ dig' = [dig EXCEPT !.timers = @ \ {c}, !.state = "PREVIEW",
                                     !.computedFrom = c.layers]
    /\ UNCHANGED <<format, dst, exp, taj, layers, config>>

\* setTrimJump in the parameter panel, and the live-update effect of the
\* render that follows: the pending debounce timer is cleared and, in
\* PREVIEW, a new one is set.
SetTrimJump ==
    /\ dig.state \in {"DIGITIZING", "PREVIEW"}
    /\ \E v \in TrimJumps \ {config.trimJumpDistanceMm} :
          config' = [config EXCEPT !.trimJumpDistanceMm = v]
    /\ dig' = [dig EXCEPT !.debounce = IF dig.state = "PREVIEW"
                                        THEN {Closure(layers, config')} ELSE {}]
    /\ UNCHANGED <<stitches, format, dst, exp, taj, layers>>

\* The callback of the debounce "setTimeout(..., 200)".
DebounceTimer ==
    /\ \E c \in dig.debounce :
          dig' = handleDigitize([dig EXCEPT !.debounce = {}], c)
    /\ UNCHANGED <<stitches, format, dst, exp, taj, layers, config>>

\* "Voltar à Geometria": setState(REVIEW_VECTORS).
BackToGeometry ==
    /\ dig.state \in {"DIGITIZING", "PREVIEW"}
    /\ dig' = [dig EXCEPT !.state = "REVIEW_VECTORS"]
    /\ UNCHANGED <<stitches, format, dst, exp, taj, layers, config>>

handleReset ==
    /\ dig' = [dig EXCEPT !.originalImage = FALSE, !.processedImage = FALSE,
                          !.state = "IDLE", !.computedFrom = <<>>]
    /\ layers' = <<>>
    /\ stitches' = <<>>
    /\ UNCHANGED <<format, dst, exp, taj, config>>

\* handleDownload of the current render: the encoder it calls, if any.
handleDownload(d, button) ==
    IF Len(stitches) = 0 THEN d
    ELSE [d EXCEPT !.download =
              [button |-> button,
               called |-> IF format = "exp" THEN "createExpFile" ELSE "createDstFile"]]

\* "onClick={() => { setExportFormat(button); handleDownload(); }}"
ClickDownload(button) ==
    /\ dig.state \in {"DIGITIZING", "PREVIEW"}
    /\ format' = button
    /\ dig' = handleDownload(dig, button)
    /\ UNCHANGED <<stitches, dst, exp, taj, layers, config>>

ClickExp == ClickDownload("exp")

ClickDst == ClickDownload("dst")

AppNext ==
    \/ Upload \/ AnalyzeStart \/ AnalyzeDone \/ VectorizeStart \/ VectorizeDone
    \/ BackToBitmap \/ ClickDigitize \/ DigitizeTimer \/ SetTrimJump
    \/ DebounceTimer \/ BackToGeometry \/ handleReset \/ ClickExp \/ ClickDst

SpecApp == AppInit /\ [][AppNext]_vars

(***************************************************************************)
(* C29.  After any sequence of clicks on the EXP and DST download buttons  *)
(* with a stitch list that is not empty, each click downloads a file       *)
(* encoded in the format of the button clicked: DST calls createDstFile,   *)
(* EXP calls createExpFile, whichever button was clicked before.           *)
(***************************************************************************)
EncoderOf(button) == IF button = "exp" THEN "createExpFile" ELSE "createDstFile"

C29_DownloadsClickedFormat ==
    dig.download # <<>> => dig.download.called = EncoderOf(dig.download.button)


(***************************************************************************)
(* C30.  A digitize callback deferred by handleDigitize (the 50 ms timer   *)
(* or the 200 ms live-update debounce) never overrides a later user        *)
(* action: if handleReset, a new upload or "back to geometry" runs before  *)
(* the timer fires, the state stays IDLE (resp. REVIEW_VECTORS) with the   *)
(* stitches that action set; the app is in PREVIEW only with stitches      *)
(* computed from the current vectorLayers; and if digitizeDesign throws    *)
(* inside the callback the state becomes ERROR rather than staying         *)
(* DIGITIZING.                                                             *)
(***************************************************************************)
\* The step is the callback of a 50 ms timer, resp. of the debounce timer.
C30_TimerFired == dig.timers \ dig'.timers # {}

C30_DebounceFired == dig.debounce # {} /\ dig'.debounce = {} /\ config' = config

\* The app is in IDLE or REVIEW_VECTORS with a timer pending only after
\* handleReset, an upload or "back to geometry" ran behind the timer's back.
C30_KeepsLaterAction ==
    (dig.state \in {"IDLE", "REVIEW_VECTORS"} /\ (C30_TimerFired \/ C30_DebounceFired))
        => (dig'.state = dig.state /\ stitches' = stitches)

C30_PreviewIsCurrent ==
    dig.state = "PREVIEW" => (layers # <<>> /\ dig.computedFrom = layers)

C30_ThrowIsError ==
    \A c \in dig.timers \ dig'.timers :
        digitizeThrows(c.layers, c.config) => dig'.state = "ERROR"

C30_TimersNeverOverride ==
    /\ [][C30_KeepsLaterAction]_vars
    /\ []C30_PreviewIsCurrent
    /\ [][C30_ThrowIsError]_vars

=============================================================================
